---- MODULE Spec2Model ----
(***************************************************************************)
(* Model of the 3decision PyMOL plugin's API orchestration layer:          *)
(* ThreeDecisionAPIClient (src/api_client.py) and the worker threads that  *)
(* drive it (src/gui.py).                                                   *)
(*                                                                         *)
(* Strings the code inspects character by character (URLs) are tuples of   *)
(* one-character strings.  Opaque strings (API keys, tokens, event ids)    *)
(* are TLA+ strings.  Python's None and '' are both written "" (or <<>>    *)
(* for a character tuple): the code only ever tests these fields for       *)
(* truthiness, and save_config writes `x or ''` for each of them.          *)
(***************************************************************************)
EXTENDS Integers, Sequences, FiniteSets, TLC

VARIABLES
    client,     \* the ThreeDecisionAPIClient: base_url, api_key, token, session.headers
    config,     \* content of ~/.3decision_pymol_config ([present |-> FALSE] when the file is absent)
    pc,         \* position of the worker that is using the client
    flow,       \* which operation the worker runs
    attempt,    \* the polling loop's `attempt` counter
    job,        \* request-scoped data of the running operation
    req,        \* observation of the last _request_with_retry call
    obs,        \* per-operation counters of what was issued
    signals,    \* terminal notifications emitted by the running thread, in order
    gui         \* the dialog's Projects tab: projects_data, the table's rows, the filter text, current_project_structures

vars == <<client, config, pc, flow, attempt, job, req, obs, signals, gui>>

----------------------------------------------------------------------------
(* Values *)

None == ""

\* truthiness of an opaque string
Truthy(x) == x # ""

\* truthiness of a character tuple
NonEmpty(t) == t # <<>>

Tokens == {"t1", "t2"}

ApiKeys == {"k1"}

\* 'http://' and 'https://' as character tuples
HTTP == <<"h", "t", "t", "p", ":", "/", "/">>

HTTPS == <<"h", "t", "t", "p", "s", ":", "/", "/">>

\* URLs a user can type into the settings dialog
RawUrls ==
    { <<"x">>,
      HTTP \o <<"x", "/">>,
      HTTPS \o <<"x", "/", "/">> }

StartsWith(s, p) == Len(s) >= Len(p) /\ SubSeq(s, 1, Len(p)) = p

RECURSIVE RStrip(_, _)
\* str.rstrip(ch)
RStrip(s, ch) ==
    IF s # <<>> /\ s[Len(s)] = ch THEN RStrip(SubSeq(s, 1, Len(s) - 1), ch) ELSE s

\* Mutant: one trailing '/' is removed, not all
NormalizeUrlOneSlash(u) ==
    LET withScheme == IF ~(StartsWith(u, HTTP) \/ StartsWith(u, HTTPS)) THEN HTTP \o u ELSE u
    IN  IF withScheme[Len(withScheme)] = "/"
        THEN SubSeq(withScheme, 1, Len(withScheme) - 1) ELSE withScheme

\* configure(): the stored base_url
NormalizeUrl(u) ==
    LET withScheme == IF ~(StartsWith(u, HTTP) \/ StartsWith(u, HTTPS)) THEN HTTP \o u ELSE u
    IN  RStrip(withScheme, "/")

----------------------------------------------------------------------------
(* HTTP responses: [status, body].  Status 0 stands for a transport error:  *)
(* requests raises (ConnectionError, ...) instead of returning a response.  *)

Raised(r) == r.status = 0

OkStatuses == {200, 201}

AuthStatuses == {401, 403}

FailStatuses == {401, 403, 500, 0}

\* bodies of GET /auth/api/login: unparsable, or a JSON object whose
\* access_token is missing/empty ("") or a token
LoginBodies == {"badjson", ""} \cup Tokens

LoginResponses ==
    {[status |-> s, body |-> b] : s \in OkStatuses, b \in LoginBodies}
        \cup {[status |-> s, body |-> "badjson"] : s \in FailStatuses}

----------------------------------------------------------------------------
(* Session/Transport *)

\* __init__ + load_config
LoadConfig(cfg) ==
    IF cfg.present
    THEN [base_url |-> cfg.base_url, api_key |-> cfg.api_key, token |-> cfg.token,
          headers |-> [Authorization |-> IF Truthy(cfg.token) THEN cfg.token ELSE None,
                       DngApiKey |-> None]]
    ELSE [base_url |-> <<>>, api_key |-> None, token |-> None,
          headers |-> [Authorization |-> None, DngApiKey |-> None]]

\* save_config
SaveConfig(c) ==
    [present |-> TRUE, base_url |-> c.base_url, api_key |-> c.api_key, token |-> c.token]

\* configure(base_url, api_key)
Configure(c, u, k) ==
    [c EXCEPT !.base_url = NormalizeUrl(u),
              !.api_key = k,
              !.token = None,
              !.headers = [Authorization |-> None, DngApiKey |-> k]]

is_configured(c) == NonEmpty(c.base_url) /\ Truthy(c.api_key)

\* Mutant: login() does not look at is_configured()
LoginUnconfigured(c, cfg, lr) ==
    IF lr.status \in OkStatuses /\ lr.body # "badjson"
    THEN LET c1 == [c EXCEPT !.token = lr.body]
         IN  IF Truthy(c1.token)
             THEN LET c2 == [c1 EXCEPT !.headers.Authorization = c1.token,
                                       !.headers.DngApiKey = None]
                  IN  [client |-> c2, config |-> SaveConfig(c2), ok |-> TRUE, sent |-> 1]
             ELSE [client |-> c1, config |-> cfg, ok |-> FALSE, sent |-> 1]
    ELSE [client |-> c, config |-> cfg, ok |-> FALSE, sent |-> 1]

\* Mutant: the API-key header stays in the session after a login
LoginKeepsApiKeyHeader(c, cfg, lr) ==
    IF ~is_configured(c)
    THEN [client |-> c, config |-> cfg, ok |-> FALSE, sent |-> 0]
    ELSE IF lr.status \in OkStatuses /\ lr.body # "badjson"
         THEN LET c1 == [c EXCEPT !.token = lr.body]
              IN  IF Truthy(c1.token)
                  THEN LET c2 == [c1 EXCEPT !.headers.Authorization = c1.token]
                       IN  [client |-> c2, config |-> SaveConfig(c2), ok |-> TRUE, sent |-> 1]
                  ELSE [client |-> c1, config |-> cfg, ok |-> FALSE, sent |-> 1]
         ELSE [client |-> c, config |-> cfg, ok |-> FALSE, sent |-> 1]

\* login(): lr is the auth endpoint's answer.  Result: the client and the
\* config file afterwards, the boolean returned, the requests sent.
Login(c, cfg, lr) ==
    IF ~is_configured(c)
    THEN [client |-> c, config |-> cfg, ok |-> FALSE, sent |-> 0]
    ELSE IF lr.status \in OkStatuses /\ lr.body # "badjson"
         THEN LET c1 == [c EXCEPT !.token = lr.body]
              IN  IF Truthy(c1.token)
                  THEN LET c2 == [c1 EXCEPT !.headers = [Authorization |-> c1.token,
                                                        DngApiKey |-> None]]
                       IN  [client |-> c2, config |-> SaveConfig(c2), ok |-> TRUE, sent |-> 1]
                  ELSE [client |-> c1, config |-> cfg, ok |-> FALSE, sent |-> 1]
         ELSE [client |-> c, config |-> cfg, ok |-> FALSE, sent |-> 1]

\* test_connection()
TestConnection(c, cfg, lr) ==
    IF ~is_configured(c)
    THEN [client |-> c, config |-> cfg, ok |-> FALSE, sent |-> 0]
    ELSE IF Truthy(c.token) /\ c.headers.Authorization # None
         THEN [client |-> c, config |-> cfg, ok |-> TRUE, sent |-> 0]
         ELSE Login(c, cfg, lr)

\* The Authorization header that goes on the wire: the per-request header
\* when there is one, else the session's.
WireAuth(c, h) == IF h # None THEN h ELSE c.headers.Authorization

\* Mutant: the retried request keeps the header of the first send
RetryHeaderStale(c, h1) == h1

\* headers['Authorization'] of the retried request: built from the token
\* the re-login stored; h1 is the header of the first send
RetryHeader(c, h1) == c.token

\* Mutant: the old token is dropped but the session's Authorization header
\* is left in place
ReLoginKeepsHeader(c, cfg, lr) == Login([c EXCEPT !.token = None], cfg, lr)

\* The re-login branch of _request_with_retry
ReLogin(c, cfg, lr) ==
    Login([c EXCEPT !.token = None, !.headers.Authorization = None], cfg, lr)

\* _request_with_retry(method, url, headers, ...): hAuth is the caller's
\* Authorization header (None when the caller passes none), r1 the answer to
\* the first send, lr the answer to the re-login, r2 the answer to the
\* second send.  kind is "response" (a response is returned), "none"
\* (None is returned) or "raised" (the transport raised).
RequestWithRetry(c, cfg, hAuth, r1, lr, r2) ==
    LET h1 == IF hAuth = None /\ Truthy(c.token) THEN c.token ELSE hAuth
        base == [client |-> c, config |-> cfg, before |-> c,
                 kind |-> "response", response |-> r1,
                 sends |-> 1, logins |-> 0, loginSent |-> 0, loginOk |-> FALSE,
                 first |-> r1.status, second |-> 0,
                 auth1 |-> WireAuth(c, h1), auth2 |-> None]
    IN  IF Raised(r1)
        THEN [base EXCEPT !.kind = "raised"]
        ELSE IF r1.status \in AuthStatuses
             THEN LET l == ReLogin(c, cfg, lr)
                      b1 == [base EXCEPT !.client = l.client, !.config = l.config,
                                         !.logins = 1, !.loginSent = l.sent,
                                         !.loginOk = l.ok]
                  IN  IF l.ok
                      THEN [b1 EXCEPT !.sends = 2,
                                      !.second = r2.status,
                                      !.auth2 = WireAuth(l.client, RetryHeader(l.client, h1)),
                                      !.response = r2,
                                      !.kind = IF Raised(r2) THEN "raised" ELSE "response"]
                      ELSE [b1 EXCEPT !.kind = "none"]
             ELSE base

\* Every outcome _request_with_retry can have when the server answers each
\* send with a response of R and each login with a response of LR
ReqOutcomes(c, cfg, hAuth, R, LR) ==
    UNION { IF r1.status \in AuthStatuses
            THEN UNION { IF ReLogin(c, cfg, lr).ok
                         THEN {RequestWithRetry(c, cfg, hAuth, r1, lr, r2) : r2 \in R}
                         ELSE {RequestWithRetry(c, cfg, hAuth, r1, lr, r1)}
                         : lr \in LR }
            ELSE {RequestWithRetry(c, cfg, hAuth, r1, CHOOSE lr \in LR : TRUE, r1)}
            : r1 \in R }

\* Every outcome test_connection can have
ConnOutcomes(c, cfg, LR) == {TestConnection(c, cfg, lr) : lr \in LR}

\* The login answers met while a job runs: one that logs in, one that does not
JobLogins == {[status |-> 200, body |-> "t1"], [status |-> 401, body |-> "badjson"]}

\* What the model keeps of a _request_with_retry call
\* kind, status: what was returned; sends, logins: the requests and login
\* calls made; first, second: the status of each send's answer; auth1,
\* auth2: the Authorization header of each send; before, after: the client
Observe(o) ==
    [kind |-> o.kind, status |-> IF o.kind = "response" THEN o.response.status ELSE 0,
     sends |-> o.sends, logins |-> o.logins, loginSent |-> o.loginSent,
     loginOk |-> o.loginOk, first |-> o.first, second |-> o.second,
     auth1 |-> o.auth1, auth2 |-> o.auth2,
     before |-> o.before, after |-> o.client,
     url |-> <<>>, key |-> None, answer |-> [status |-> 0, body |-> ""],
     raised |-> FALSE, op |-> "", list |-> <<>>, logged |-> ""]

NoReq ==
    [kind |-> "", status |-> 0, sends |-> 0, logins |-> 0, loginSent |-> 0,
     loginOk |-> FALSE, first |-> 0, second |-> 0, auth1 |-> None, auth2 |-> None,
     before |-> LoadConfig([present |-> FALSE]), after |-> LoadConfig([present |-> FALSE]),
     url |-> <<>>, key |-> None, answer |-> [status |-> 0, body |-> ""],
     raised |-> FALSE, op |-> "", list |-> <<>>, logged |-> ""]

----------------------------------------------------------------------------
(* Export Assembler: export_structure_pdb ("pdb"),                          *)
(* export_structures_with_transforms with one item ("single") and with     *)
(* several items, which goes through download_structures_zip ("zip").      *)

ExportFlows == {"pdb", "single", "zip"}

DOT == "."

PDB_EXT == <<".", "p", "d", "b">>

EndsWith(s, p) == Len(s) >= Len(p) /\ SubSeq(s, Len(s) - Len(p) + 1, Len(s)) = p

\* positions of character ch in s
Positions(s, ch) == {i \in 1..Len(s) : s[i] = ch}

Max(S) == CHOOSE m \in S : \A x \in S : x <= m

\* Mutant: the name is cut at its first '.'
StripExtAtFirstDot(filename) ==
    IF Positions(filename, DOT) # {}
    THEN SubSeq(filename, 1,
                (CHOOSE m \in Positions(filename, DOT) :
                    \A x \in Positions(filename, DOT) : m <= x) - 1)
    ELSE filename

\* filename.rsplit('.', 1)[0] when '.' in filename, else filename
StripExt(filename) ==
    IF Positions(filename, DOT) # {}
    THEN SubSeq(filename, 1, Max(Positions(filename, DOT)) - 1)
    ELSE filename

\* pdb_filename.split('/')[-1]
BaseName(name) ==
    IF Positions(name, "/") # {}
    THEN SubSeq(name, Max(Positions(name, "/")) + 1, Len(name))
    ELSE name

EventIds == {"ev1", "ev2"}

\* POST /exports/structure answers with the domain event id as plain text
SubmitResponses ==
    {[status |-> s, body |-> b] : s \in OkStatuses, b \in EventIds \cup {""}}
        \cup {[status |-> s, body |-> ""] : s \in FailStatuses}

FileNames ==
    { <<"1", "0", "1", ".", "p", "d", "b">>,
      <<"a", ".", "b", ".", "z", "i", "p">>,
      <<"r", "a", "w">> }

\* content.file_names[0]: the list is missing or empty ("missing"), its first
\* entry is no object ("notdict"), or it is an object with file_name `name`
\* (<<>> when file_name is missing or empty)
FirstFiles ==
    {[kind |-> "missing", name |-> <<>>], [kind |-> "notdict", name |-> <<>>],
     [kind |-> "dict", name |-> <<>>]}
        \cup {[kind |-> "dict", name |-> n] : n \in FileNames}

PendingBody(st) ==
    [json |-> TRUE, state |-> st, shape |-> "dict", not_exported |-> FALSE,
     first_file |-> [kind |-> "missing", name |-> <<>>]]

\* Bodies of GET /domain-events/{id}.  json = FALSE: the body does not parse.
\* shape = "null": content (or content.errors) is JSON null, so that `.get`
\* on it raises AttributeError.  state "" is a missing state.
DomainBodies ==
    {[PendingBody("") EXCEPT !.json = FALSE]}
        \cup {PendingBody(st) : st \in {"pending", "", "running", "failed"}}
        \cup {[PendingBody("success") EXCEPT !.shape = "null"]}
        \cup {[PendingBody("success") EXCEPT !.not_exported = ne, !.first_file = ff]
                : ne \in BOOLEAN, ff \in FirstFiles}

DomainResponses ==
    {[status |-> s, body |-> b] : s \in OkStatuses, b \in DomainBodies}
        \cup {[status |-> s, body |-> PendingBody("")] : s \in FailStatuses}

GenericResponses == {[status |-> s, body |-> ""] : s \in OkStatuses \cup FailStatuses}

TextBodies == {"", "ATOM"}

TextResponses ==
    {[status |-> s, body |-> b] : s \in OkStatuses, b \in TextBodies}
        \cup {[status |-> s, body |-> ""] : s \in FailStatuses}

Entry(n, d) == [name |-> n, data |-> d]

\* Downloaded bytes of a ZIP export: empty, not a ZIP archive, or an archive
\* with these entries
ZipBodies ==
    {[kind |-> "empty", entries |-> <<>>], [kind |-> "notzip", entries |-> <<>>],
     [kind |-> "zip", entries |-> <<>>],
     [kind |-> "zip", entries |-> <<Entry(<<"a">> \o PDB_EXT, "A")>>],
     [kind |-> "zip", entries |-> <<Entry(<<"d", "/", "a">> \o PDB_EXT, "A"),
                                   Entry(<<"r", ".", "t", "x", "t">>, "R")>>],
     [kind |-> "zip", entries |-> <<Entry(<<"d", "/", "a">> \o PDB_EXT, "A"),
                                   Entry(<<"e", "/", "a">> \o PDB_EXT, "B")>>]}

ZipResponses ==
    {[status |-> s, body |-> b] : s \in OkStatuses, b \in ZipBodies}
        \cup {[status |-> s, body |-> [kind |-> "empty", entries |-> <<>>]] : s \in FailStatuses}

NoBytes == [kind |-> "none", entries |-> <<>>]

\* What an export returns: None (ok = FALSE), PDB text, a mapping
\* file name -> content (a set of <<name, content>> pairs with distinct
\* names), or the bytes of a download
NoResult == [ok |-> FALSE, text |-> "", files |-> {}, bytes |-> NoBytes]

TextResult(t) == [ok |-> TRUE, text |-> t, files |-> {}, bytes |-> NoBytes]

FilesResult(m) == [ok |-> TRUE, text |-> "", files |-> m, bytes |-> NoBytes]

BytesResult(content) == [ok |-> TRUE, text |-> "", files |-> {}, bytes |-> content]

\* `while attempt < max_attempts` of the three polling loops
max_attempts_pdb == 30

max_attempts_single == 30

max_attempts_zip == 30

MaxAttempts(f) ==
    CASE f = "pdb" -> max_attempts_pdb
      [] f = "single" -> max_attempts_single
      [] f \in {"zip", "zipfile"} -> max_attempts_zip

\* The submission's outcome: the domain event id to poll, or "" when the
\* export returns None at once
SubmitStep(o) ==
    IF o.kind = "response" /\ o.response.status \in OkStatuses
    THEN o.response.body
    ELSE ""

Step(next, why, filename) == [next |-> next, why |-> why, filename |-> filename]

\* Mutant: content.errors.not_exported is not looked at
SuccessStepIgnoresErrors(b) ==
    IF b.first_file.kind = "missing" THEN Step("return", "no_file_names", <<>>)
    ELSE IF b.first_file.kind = "notdict" THEN Step("return", "bad_file_names", <<>>)
    ELSE IF ~NonEmpty(b.first_file.name) THEN Step("return", "no_filename", <<>>)
    ELSE Step("download", "", StripExt(b.first_file.name))

\* Handling of state == 'success', common to the three loops: what the
\* iteration does once not_exported and file_names are read
SuccessStep(b) ==
    IF b.not_exported THEN Step("return", "not_exported", <<>>)
    ELSE IF b.first_file.kind = "missing" THEN Step("return", "no_file_names", <<>>)
    ELSE IF b.first_file.kind = "notdict" THEN Step("return", "bad_file_names", <<>>)
    ELSE IF ~NonEmpty(b.first_file.name) THEN Step("return", "no_filename", <<>>)
    ELSE Step("download", "", StripExt(b.first_file.name))

\* One iteration of export_structure_pdb's polling loop, up to the download.
\* next: "download" (go on to the download request), "continue" (sleep,
\* attempt += 1, loop) or "return" (return None).
ExportPollStep(o) ==
    IF o.kind = "raised" THEN Step("return", "exception", <<>>)
    ELSE IF o.kind = "none" THEN Step("return", "no_response", <<>>)
    ELSE IF o.response.status \notin OkStatuses THEN Step("return", "poll_status", <<>>)
    ELSE LET b == o.response.body
         IN  IF ~b.json THEN Step("return", "bad_json", <<>>)
             ELSE IF b.state = "success"
                  THEN IF b.shape = "null" THEN Step("return", "exception", <<>>)
                       ELSE SuccessStep(b)
             ELSE IF b.state = "failed" THEN Step("return", "failed", <<>>)
             ELSE Step("continue", "", <<>>)

\* One iteration of download_structures_zip's polling loop (the same code)
ZipPollStep(o) == ExportPollStep(o)

\* One iteration of export_structures_with_transforms' polling loop: the
\* inner `except Exception` and a non-2xx status fall through to attempt += 1
BatchPollStep(o) ==
    IF o.kind = "raised" THEN Step("return", "exception", <<>>)
    ELSE IF o.kind = "none" THEN Step("return", "no_response", <<>>)
    ELSE IF o.response.status \notin OkStatuses THEN Step("continue", "", <<>>)
    ELSE LET b == o.response.body
         IN  IF ~b.json THEN Step("continue", "", <<>>)
             ELSE IF b.state = "success"
                  THEN IF b.shape = "null" THEN Step("continue", "", <<>>)
                       ELSE SuccessStep(b)
             ELSE IF b.state = "failed" THEN Step("return", "failed", <<>>)
             ELSE Step("continue", "", <<>>)

PollStep(f, o) ==
    CASE f = "pdb" -> ExportPollStep(o)
      [] f = "single" -> BatchPollStep(o)
      [] f \in {"zip", "zipfile"} -> ZipPollStep(o)

\* The download request of export_structure_pdb
ExportDownloadStep(o) ==
    IF o.kind = "response" /\ o.response.status \in OkStatuses
    THEN [next |-> "return", why |-> "", result |-> TextResult(o.response.body)]
    ELSE [next |-> "return",
          why |-> IF o.kind = "raised" THEN "exception" ELSE "download_failed",
          result |-> NoResult]

\* The download request of export_structures_with_transforms (one item):
\* only status 200 is a success, and an exception raised by the request is
\* caught inside the polling loop, which goes on
BatchDownloadStep(o, external_code) ==
    IF o.kind = "raised" THEN [next |-> "continue", why |-> "", result |-> NoResult]
    ELSE IF o.kind = "response" /\ o.response.status = 200
         THEN [next |-> "return", why |-> "",
               result |-> FilesResult({<<external_code \o PDB_EXT, o.response.body>>})]
         ELSE [next |-> "return", why |-> "download_failed", result |-> NoResult]

RECURSIVE ExtractPdb(_, _)
\* the loop filling pdb_files_dict: a later entry with the same base name
\* replaces the earlier one
ExtractPdb(entries, dict) ==
    IF entries = <<>> THEN dict
    ELSE LET e == Head(entries)
             base == BaseName(e.name)
         IN  IF EndsWith(e.name, PDB_EXT)
             THEN ExtractPdb(Tail(entries),
                             {p \in dict : p[1] # base} \cup {<<base, e.data>>})
             ELSE ExtractPdb(Tail(entries), dict)

\* export_structures_with_transforms after download_structures_zip returned
\* zip_content
Unzip(zip) ==
    IF zip.kind = "empty" THEN [why |-> "zip_failed", result |-> NoResult]
    ELSE IF zip.kind = "notzip" THEN [why |-> "bad_zip", result |-> NoResult]
    ELSE LET d == ExtractPdb(zip.entries, {})
         IN  IF d # {} THEN [why |-> "", result |-> FilesResult(d)]
             ELSE [why |-> "no_pdb_in_zip", result |-> NoResult]

\* The download request of download_structures_zip, followed by the
\* unpacking in export_structures_with_transforms
ZipDownloadStep(o) ==
    IF o.kind = "response" /\ o.response.status \in OkStatuses
    THEN LET u == Unzip(o.response.body)
         IN  [next |-> "return", why |-> u.why, result |-> u.result]
    ELSE [next |-> "return",
          why |-> IF o.kind = "raised" THEN "exception" ELSE "download_failed",
          result |-> NoResult]

\* The download request of download_structures_zip called by itself: the
\* content is returned whatever it is
ZipFileDownloadStep(o) ==
    IF o.kind = "response" /\ o.response.status \in OkStatuses
    THEN [next |-> "return", why |-> "", result |-> BytesResult(o.response.body)]
    ELSE [next |-> "return",
          why |-> IF o.kind = "raised" THEN "exception" ELSE "download_failed",
          result |-> NoResult]

\* {base_url}/domain-events/{domain_event_id}: the part that varies
DomainEventsUrl(domain_event_id) == domain_event_id

\* {base_url}/exports/structure/{domain_event_id}?filename={filename_without_ext}&download=true:
\* the parts that vary
DownloadUrl(domain_event_id, filename_without_ext) ==
    [event |-> domain_event_id, filename |-> filename_without_ext]

----------------------------------------------------------------------------
(* State *)

\* assignments: what get_project_structures returned to the Projects tab;
\* structure_data: the argument of LoadStructureThread.
\* format .. why: an export (items: the argument; submits: the export
\* requests made, with output_format and JSON payload; file_name: content.file_names[0].file_name of
\* the success response, filename: filename_without_ext); id .. structures:
\* a search and the resolver
NoJob ==
    [format |-> "", external_code |-> <<>>, event |-> "", filename |-> <<>>,
     file_name |-> <<>>, items |-> <<>>, submits |-> <<>>,
     result |-> NoResult, why |-> "",
     id |-> "", ids |-> <<>>, next |-> 0, structures |-> <<>>,
     assignments |-> <<>>, structure_data |-> <<>>]

\* polls: domain-event / job-status polls issued; downloads: download
\* requests issued; terminal: the state of the first poll response whose
\* state was success or failed ("" while there was none)
\* queries: the id lists of the resolver's requests, in order; answers:
\* what came back for each; chunks: what _fetch_structures_batch made of it; last_poll,
\* last_none: what the last get_job_status returned; status_update: the
\* status_update emitted after the last poll ("" when none was)
\* zip: the content download_structures_zip got from a 200/201 download
\* (kind "none" before that)
\* polled: the domain event of the last poll's URL; download_url: the URL
\* of the last download request
\* not_exported: a success response listed structures that were not
\* exported; resolved: the arguments get_structures_info was called with
\* poll_failed: the last domain-event poll was answered with a status other
\* than 200/201 or with a body that does not parse
NoObs ==
    [polls |-> 0, downloads |-> 0, terminal |-> "", not_exported |-> FALSE,
     polled |-> "", download_url |-> DownloadUrl("", <<>>),
     zip |-> [kind |-> "none", entries |-> <<>>],
     resolved |-> <<>>, queries |-> <<>>, answers |-> <<>>, chunks |-> <<>>,
     last_poll |-> [kind |-> "", progress_kind |-> "", progress |-> 0, rv |-> "",
                    ids |-> <<>>, status |-> ""],
     last_none |-> TRUE, status_update |-> "", poll_failed |-> FALSE]

ExternalCodes == {<<"c", "1">>}

\* One element of structures_with_transforms
Item(external_code, structure_id, transform) ==
    [external_code |-> external_code, structure_id |-> structure_id,
     transform |-> transform]

\* Arguments of export_structures_with_transforms: one request, or two in
\* either order
TransformRequests ==
    LET a == Item(<<"c", "1">>, 101, "T1")
        b == Item(<<"c", "2">>, 102, "T2")
    IN  {<<a>>, <<a, b>>, <<b, a>>}

\* Mutant: the ZIP branch is taken for one request too
TransformFlowAlwaysZip(structures_with_transforms) ==
    IF Len(structures_with_transforms) >= 1 THEN "zip" ELSE "single"

\* `if len(structures_with_transforms) > 1`: the ZIP branch, else the text
\* branch
TransformFlow(structures_with_transforms) ==
    IF Len(structures_with_transforms) > 1 THEN "zip" ELSE "single"

\* What a flow is called with: export_structure_pdb with one structure id
\* (an item without transform), export_structures_with_transforms with the
\* requests that take the flow's branch
ExportArgs(f) ==
    IF f = "pdb" THEN {<<Item(code, 101, "")>> : code \in ExternalCodes}
    ELSE IF f = "zipfile" THEN TransformRequests
    ELSE {r \in TransformRequests : TransformFlow(r) = f}

\* The JSON payload of POST /exports/structure
SubmitPayload(f, items) ==
    LET matrix == [i \in 1..Len(items) |->
                     [external_code |-> items[i].external_code,
                      structure_id |-> items[i].structure_id,
                      transform |-> items[i].transform]]
    IN  CASE f = "pdb" ->
               [structures_id |-> <<items[1].structure_id>>, external_codes |-> <<>>,
                matrix |-> <<>>]
          [] f = "single" ->
               [structures_id |-> <<>>,
                external_codes |-> [i \in 1..Len(items) |-> items[i].external_code],
                matrix |-> matrix]
          [] f \in {"zip", "zipfile"} ->
               [structures_id |-> [i \in 1..Len(items) |-> items[i].structure_id],
                external_codes |-> <<>>, matrix |-> matrix]

\* ThreeDecisionDialog.__init__: no project loaded, no filter typed
NoGui ==
    [projects_data |-> <<>>, projects_table |-> <<>>, filter_name |-> <<>>,
     current_project_structures |-> <<>>,
     submit_button |-> FALSE, load_button |-> FALSE,
     load_project_structures_button |-> FALSE,
     search_thread |-> 0, load_thread |-> 0, threads |-> <<>>, posted |-> <<>>,
     closed |-> FALSE, after_close |-> {}]

Init ==
    /\ config = [present |-> FALSE, base_url |-> <<>>, api_key |-> None, token |-> None]
    /\ client = LoadConfig(config)
    /\ pc = "idle"
    /\ flow = ""
    /\ attempt = 0
    /\ job = NoJob
    /\ req = NoReq
    /\ obs = NoObs
    /\ signals = <<>>
    /\ gui = NoGui

\* The plugin is started again: a new client is constructed from the file
Restart ==
    /\ pc = "idle"
    /\ client' = LoadConfig(config)
    /\ flow' = ""
    /\ attempt' = 0
    /\ job' = NoJob
    /\ req' = NoReq
    /\ obs' = NoObs
    /\ signals' = <<>>
    /\ gui' = NoGui
    /\ UNCHANGED <<config, pc>>

\* SettingsDialog.save_settings with a URL and an API key entered
SaveSettingsOf(U, LR) ==
    /\ pc = "idle"
    /\ \E u \in U, k \in ApiKeys, lr \in LR :
         LET c1 == Configure(client, u, k)
             l == Login(c1, SaveConfig(c1), lr)
         IN  /\ client' = l.client
             /\ config' = l.config
    /\ req' = NoReq
    /\ UNCHANGED <<pc, flow, attempt, job, obs, signals, gui>>

SaveSettings == SaveSettingsOf(RawUrls, LoginResponses)

\* The same handler with one URL entered, for the specifications of the jobs
Setup == SaveSettingsOf({<<"x">>}, JobLogins)

\* ConnectionTestThread.run.  raised: an exception leaves the try block
\* after configure(), and the except clause only emits the signal.
\* req.loginOk is the success reported, req.before the client at the start.
ConnectionTest ==
    /\ pc = "idle"
    /\ \E u \in RawUrls, k \in ApiKeys, lr \in LoginResponses, raised \in BOOLEAN :
         LET c1 == Configure(client, u, k)
             t == TestConnection(c1, config, lr)
             c2 == IF raised THEN c1
                   ELSE IF t.ok THEN t.client
                   ELSE [t.client EXCEPT !.base_url = client.base_url,
                                         !.api_key = client.api_key,
                                         !.token = client.token]
         IN  /\ client' = c2
             /\ config' = IF raised THEN config ELSE t.config
             /\ req' = [NoReq EXCEPT !.kind = "connection_test", !.url = u, !.key = k,
                                     !.answer = lr, !.raised = raised,
                                     !.loginOk = ~raised /\ t.ok,
                                     !.before = client, !.after = c2]
    /\ UNCHANGED <<pc, flow, attempt, job, obs, signals, gui>>

\* The operation has returned and its caller has taken the result: the
\* request-scoped data is gone
Finished ==
    /\ pc = "done"
    /\ pc' = "idle"
    /\ flow' = ""
    /\ attempt' = 0
    /\ job' = NoJob
    /\ obs' = NoObs
    /\ signals' = <<>>
    /\ UNCHANGED <<client, config, req, gui>>

----------------------------------------------------------------------------
(* Export flows as steps of the worker *)

\* The Authorization header the caller passes to the submit request:
\* download_structures_zip builds one from self.token, the others pass none
SubmitAuth(f, c) == IF f \in {"zip", "zipfile"} THEN c.token ELSE None

ExportFormat(f) == IF f \in {"zip", "zipfile"} THEN "structures-pdb-zip" ELSE "structures-pdb-txt"

DownloadResponses(f) == IF f \in {"zip", "zipfile"} THEN ZipResponses ELSE TextResponses

\* export_structure_pdb / export_structures_with_transforms /
\* download_structures_zip up to the polling loop: test_connection, then the
\* export request.  The first two return None when the connection test
\* fails; download_structures_zip ("zipfile") raises "Not authenticated".
ExportStart(f) ==
    /\ pc = "idle"
    /\ flow' = f
    /\ attempt' = 0
    /\ signals' = <<>>
    /\ obs' = NoObs
    /\ req' = req
    /\ gui' = gui
    /\ \E items \in ExportArgs(f), t \in ConnOutcomes(client, config, JobLogins) :
         LET j0 == [NoJob EXCEPT !.items = items,
                                 !.external_code = items[1].external_code]
             j == [j0 EXCEPT !.format = ExportFormat(f),
                             !.submits = <<[format |-> ExportFormat(f),
                                            payload |-> SubmitPayload(f, items)]>>]
         IN  IF ~t.ok
             THEN /\ client' = t.client
                  /\ config' = t.config
                  /\ job' = [j0 EXCEPT !.why = IF f = "zipfile" THEN "raised"
                                               ELSE "not_connected"]
                  /\ pc' = "done"
             ELSE \E o \in ReqOutcomes(t.client, t.config, SubmitAuth(f, t.client),
                                       SubmitResponses, JobLogins) :
                    /\ client' = o.client
                    /\ config' = o.config
                    /\ IF Truthy(SubmitStep(o))
                       THEN /\ job' = [j EXCEPT !.event = SubmitStep(o)]
                            /\ pc' = "export_poll"
                       ELSE /\ job' = [j EXCEPT !.why = "submit_failed"]
                            /\ pc' = "done"

IsTerminalState(o) ==
    /\ o.kind = "response"
    /\ o.response.status \in OkStatuses
    /\ o.response.body.json
    /\ o.response.body.state \in {"success", "failed"}

ListsNotExported(o) ==
    /\ IsTerminalState(o)
    /\ o.response.body.state = "success"
    /\ o.response.body.shape = "dict"
    /\ o.response.body.not_exported

\* Mutant: the loop runs once more
LoopContinuesInclusive(f, a) == a <= MaxAttempts(f)

\* `while attempt < max_attempts` of an export's polling loop
LoopContinues(f, a) == a < MaxAttempts(f)

\* One iteration of the polling loop, up to the download request
ExportPoll ==
    /\ pc = "export_poll"
    /\ LoopContinues(flow, attempt)
    /\ \E o \in ReqOutcomes(client, config, None, DomainResponses, JobLogins) :
         LET st == PollStep(flow, o)
         IN  /\ client' = o.client
             /\ config' = o.config
             /\ obs' = [obs EXCEPT !.polls = @ + 1,
                                   !.polled = DomainEventsUrl(job.event),
                                   !.poll_failed =
                                       /\ o.kind = "response"
                                       /\ \/ o.response.status \notin OkStatuses
                                          \/ ~o.response.body.json,
                                   !.terminal = IF @ = "" /\ IsTerminalState(o)
                                                THEN o.response.body.state ELSE @,
                                   !.not_exported = @ \/ ListsNotExported(o)]
             /\ CASE st.next = "download" ->
                       /\ job' = [job EXCEPT !.filename = st.filename,
                                              !.file_name = o.response.body.first_file.name]
                       /\ pc' = "export_download"
                       /\ attempt' = attempt
                  [] st.next = "continue" ->
                       /\ job' = job
                       /\ pc' = "export_poll"
                       /\ attempt' = attempt + 1
                  [] st.next = "return" ->
                       /\ job' = [job EXCEPT !.why = st.why]
                       /\ pc' = "done"
                       /\ attempt' = attempt
    /\ UNCHANGED <<flow, req, signals, gui>>

\* The loop condition fails: "Export polling timed out", return None
ExportTimeout ==
    /\ pc = "export_poll"
    /\ ~LoopContinues(flow, attempt)
    /\ job' = [job EXCEPT !.why = "timeout"]
    /\ pc' = "done"
    /\ UNCHANGED <<client, config, flow, attempt, req, obs, signals, gui>>

DownloadStep(f, o, code) ==
    CASE f = "pdb" -> ExportDownloadStep(o)
      [] f = "single" -> BatchDownloadStep(o, code)
      [] f = "zip" -> ZipDownloadStep(o)
      [] f = "zipfile" -> ZipFileDownloadStep(o)

\* The download request made in the iteration that saw state success
ExportDownload ==
    /\ pc = "export_download"
    /\ \E o \in ReqOutcomes(client, config, None, DownloadResponses(flow), JobLogins) :
         LET st == DownloadStep(flow, o, job.external_code)
         IN  /\ client' = o.client
             /\ config' = o.config
             /\ obs' = [obs EXCEPT !.downloads = @ + 1,
                                   !.download_url = DownloadUrl(job.event, job.filename),
                                   !.zip = IF flow = "zip" /\ o.kind = "response"
                                              /\ o.response.status \in OkStatuses
                                           THEN o.response.body ELSE @]
             /\ IF st.next = "continue"
                THEN /\ job' = job
                     /\ pc' = "export_poll"
                     /\ attempt' = attempt + 1
                ELSE /\ job' = [job EXCEPT !.result = st.result, !.why = st.why]
                     /\ pc' = "done"
                     /\ attempt' = attempt
    /\ UNCHANGED <<flow, req, signals, gui>>

----------------------------------------------------------------------------
(* Structure Info Resolver *)

batch_size == 500

Record(id, tag) == [structure_id |-> id, tag |-> tag]

\* Bodies of POST /graphql: unparsable, without data.getStructuresInfo
\* (shape = FALSE), or with these entries
GraphqlBodies ==
    {[json |-> FALSE, shape |-> FALSE, entries |-> <<>>],
     [json |-> TRUE, shape |-> FALSE, entries |-> <<>>]}
        \cup {[json |-> TRUE, shape |-> TRUE, entries |-> e] :
                e \in { <<>>,
                        <<Record(101, "a"), Record(102, "b")>>,
                        <<Record(101, "a"), Record(101, "b"), Record(0, "c"),
                          Record(102, "d")>> }}

GraphqlResponses ==
    {[status |-> s, body |-> b] : s \in OkStatuses, b \in GraphqlBodies}
        \cup {[status |-> s, body |-> [json |-> FALSE, shape |-> FALSE, entries |-> <<>>]]
                : s \in FailStatuses}

\* structure.get('structure_id') of an entry without the key (None)
NoId == -1

RECURSIVE Unique(_, _, _)
\* the seen_ids / unique_structures loop of _fetch_structures_batch;
\* `if structure_id` is false for None and for 0
Unique(batch_results, seen_ids, unique_structures) ==
    IF batch_results = <<>> THEN unique_structures
    ELSE LET structure == Head(batch_results)
             id == structure.structure_id
         IN  IF id # NoId /\ id # 0 /\ id \notin seen_ids
             THEN Unique(Tail(batch_results), seen_ids \cup {id},
                         Append(unique_structures, structure))
             ELSE Unique(Tail(batch_results), seen_ids, unique_structures)

\* _fetch_structures_batch, given the outcome of its request
FetchStructuresBatch(o) ==
    IF o.kind = "response" /\ o.response.status \in OkStatuses
       /\ o.response.body.json /\ o.response.body.shape
    THEN Unique(o.response.body.entries, {}, <<>>)
    ELSE <<>>

Min(a, b) == IF a < b THEN a ELSE b

\* Answers of POST /graphql to a query for batch_ids: no entry, an entry for
\* the first and for the last id asked, the same with a second state of the
\* first structure and an entry without structure_id, or an entry with
\* structure_id 0 before the first id's
GraphqlEntriesFor(batch_ids) ==
    IF batch_ids = <<>> THEN {<<>>}
    ELSE LET first == batch_ids[1]
             last == batch_ids[Len(batch_ids)]
         IN  { <<>>,
               <<Record(first, "a"), Record(last, "b")>>,
               <<Record(first, "a"), Record(first, "b"), Record(NoId, "c"),
                 Record(last, "d")>>,
               <<Record(0, "z"), Record(first, "a")>> }

GraphqlResponsesFor(batch_ids) ==
    {[status |-> 200, body |-> [json |-> TRUE, shape |-> TRUE, entries |-> e]] :
        e \in GraphqlEntriesFor(batch_ids)}
        \cup {[status |-> 200, body |-> [json |-> j, shape |-> FALSE, entries |-> <<>>]] :
                j \in BOOLEAN}
        \cup {[status |-> s, body |-> [json |-> FALSE, shape |-> FALSE, entries |-> <<>>]]
                : s \in {401, 500, 0}}

\* The answers a query for batch_ids can get: depending on the ids asked
\* (by_ids) or the fixed set used by the search flow
ResolverResponses(by_ids, batch_ids) ==
    IF by_ids THEN GraphqlResponsesFor(batch_ids) ELSE GraphqlResponses

\* Mutant: every chunk but the last lacks its last id
BatchIdsShort(structure_ids, i) ==
    IF Len(structure_ids) > batch_size
    THEN SubSeq(structure_ids, i + 1,
                IF i + batch_size < Len(structure_ids) THEN i + batch_size - 1
                ELSE Len(structure_ids))
    ELSE structure_ids

\* The ids of one request: structure_ids[i:i + batch_size] in the batched
\* branch, all of them otherwise
BatchIds(structure_ids, i) ==
    IF Len(structure_ids) > batch_size
    THEN SubSeq(structure_ids, i + 1, Min(i + batch_size, Len(structure_ids)))
    ELSE structure_ids

\* Mutant: the loop ends at the first chunk that returned nothing
MoreBatchesUntilEmpty(structure_ids, i, batch_structures) ==
    /\ Len(structure_ids) > batch_size
    /\ i + batch_size < Len(structure_ids)
    /\ batch_structures # <<>>

\* `for i in range(0, len(structure_ids), batch_size)` goes on after the
\* iteration at i, whatever that iteration's batch_structures
MoreBatches(structure_ids, i, batch_structures) ==
    /\ Len(structure_ids) > batch_size
    /\ i + batch_size < Len(structure_ids)

\* The part of a request's outcome that _fetch_structures_batch looks at
Answer(o) ==
    IF o.kind = "response"
    THEN [kind |-> "response", status |-> o.response.status,
          json |-> o.response.body.json, shape |-> o.response.body.shape,
          entries |-> o.response.body.entries]
    ELSE [kind |-> o.kind, status |-> 0, json |-> FALSE, shape |-> FALSE,
          entries |-> <<>>]

\* get_structures_info, one request at a time.  job.ids is the argument,
\* job.next the loop's i, job.structures the list all_structures (the
\* returned list once pc = "resolved").  The first step begins with
\* test_connection.
ResolveOf(by_ids) ==
    /\ pc = "resolve"
    /\ \E t \in (IF job.next = 0 THEN ConnOutcomes(client, config, JobLogins)
                 ELSE {[client |-> client, config |-> config, ok |-> TRUE, sent |-> 0]}) :
         IF ~t.ok
         THEN /\ client' = t.client
              /\ config' = t.config
              /\ job' = [job EXCEPT !.structures = <<>>, !.why = "not_connected"]
              /\ obs' = obs
              /\ pc' = "resolved"
         ELSE LET batch_ids == BatchIds(job.ids, job.next)
              IN  \E o \in ReqOutcomes(t.client, t.config, None, ResolverResponses(by_ids, batch_ids),
                                       JobLogins) :
                    LET batch_structures == FetchStructuresBatch(o)
                    IN  /\ client' = o.client
                        /\ config' = o.config
                        /\ obs' = [obs EXCEPT !.queries = Append(@, batch_ids),
                                              !.answers = Append(@, Answer(o)),
                                              !.chunks = Append(@, batch_structures)]
                        /\ job' = [job EXCEPT !.next = @ + batch_size,
                                              !.structures = @ \o batch_structures]
                        /\ pc' = IF MoreBatches(job.ids, job.next, batch_structures)
                                 THEN "resolve" ELSE "resolved"
    /\ UNCHANGED <<flow, attempt, req, signals, gui>>

\* get_structures_info inside a search
Resolve == ResolveOf(FALSE)

\* 1, 2, .., n
Iota(n) == [i \in 1..n |-> i]

\* Arguments of get_structures_info: none, few, one full chunk, one id more,
\* two full chunks, one id more, and lists in which an id comes twice, in
\* one chunk or in two
ResolveInputs ==
    {Iota(n) : n \in {0, 2, batch_size, batch_size + 1, 2 * batch_size,
                      2 * batch_size + 1}}
        \cup {<<7, 7>>, [i \in 1..(batch_size + 1) |-> IF i > batch_size THEN 1 ELSE i]}

\* get_structures_info is called with structure_ids
ResolveStart ==
    /\ pc = "idle"
    /\ \E structure_ids \in ResolveInputs : job' = [NoJob EXCEPT !.ids = structure_ids]
    /\ flow' = "resolver"
    /\ pc' = "resolve"
    /\ attempt' = 0
    /\ obs' = NoObs
    /\ signals' = <<>>
    /\ UNCHANGED <<client, config, req, gui>>

\* One request of that call
ResolveBatch ==
    /\ flow \in {"resolver", "project"}
    /\ ResolveOf(TRUE)

\* get_structures_info returns job.structures
ResolveReturn ==
    /\ pc = "resolved"
    /\ flow = "resolver"
    /\ pc' = "done"
    /\ UNCHANGED <<client, config, flow, attempt, job, req, obs, signals, gui>>

----------------------------------------------------------------------------
(* Job Poller, search: SearchThread.run over submit_search, get_job_status *)
(* and get_structures_info                                                  *)

JobIds == {"42"}

\* Bodies of GET /search/{query}: unparsable, a JSON list, an object with
\* an id, an object without id, the empty object
SearchBodies ==
    {[kind |-> k, id |-> ""] : k \in {"badjson", "list", "direct", "empty"}}
        \cup {[kind |-> "job", id |-> j] : j \in JobIds}

SearchResponses ==
    {[status |-> s, body |-> b] : s \in OkStatuses, b \in SearchBodies}
        \cup {[status |-> s, body |-> [kind |-> "badjson", id |-> ""]] : s \in FailStatuses}

IdLists == {<<>>, <<101, 102>>}

\* Bodies of GET /queues/{queue}/jobs/{id}.  kind: "badjson", "empty" (the
\* object {}) or "dict".  progress_kind: the progress key is "absent", JSON
\* "null" or an "int" (progress).  rv: returnvalue.STRUCTURE_ID is "absent"
\* or a "list" (ids).
JobBody(pk, p, rv, ids, st) ==
    [kind |-> "dict", progress_kind |-> pk, progress |-> p, rv |-> rv, ids |-> ids,
     status |-> st]

JobBodies ==
    {[JobBody("absent", 0, "absent", <<>>, "") EXCEPT !.kind = k] : k \in {"badjson", "empty"}}
        \cup {JobBody(pk, 0, rv, <<>>, st) :
                pk \in {"absent", "null"}, rv \in {"absent", "list"}, st \in {"active", "failed"}}
        \cup {JobBody(pk, 0, "list", <<101, 102>>, st) :
                pk \in {"absent", "null"}, st \in {"active", "failed"}}
        \cup {JobBody("int", p, "absent", <<>>, st) :
                p \in {0, 40, 100}, st \in {"active", "failed"}}
        \cup {JobBody("int", p, "list", ids, st) :
                p \in {0, 40, 100}, ids \in IdLists, st \in {"active", "failed"}}

JobResponses ==
    {[status |-> s, body |-> b] : s \in OkStatuses, b \in JobBodies}
        \cup {[status |-> s, body |-> JobBody("absent", 0, "absent", <<>>, "")]
                : s \in FailStatuses}

\* structure_ids as both pollers extract it: [] unless returnvalue.STRUCTURE_ID
\* is there
StructureIds(b) == IF b.rv = "list" THEN b.ids ELSE <<>>

ResultsReady(structures) == [sig |-> "results_ready", structures |-> structures, msg |-> ""]

ErrorOccurred(msg) == [sig |-> "error_occurred", structures |-> <<>>, msg |-> msg]

\* A 'direct' result is the parsed answer itself, an object; it stands here
\* as a one-element list
DirectData == <<0>>

\* SearchThread.run up to submit_search's queue request: test_connection
\* and GET /search/{query}.  An answer without id makes submit_search
\* return a 'direct' result, which run() hands to get_structures_info when
\* it is not empty.
SearchStart ==
    /\ pc = "idle"
    /\ flow' = "search"
    /\ attempt' = 0
    /\ \E t \in ConnOutcomes(client, config, JobLogins) :
         IF ~t.ok
         THEN /\ client' = t.client
              /\ config' = t.config
              /\ job' = NoJob
              /\ obs' = NoObs
              /\ signals' = <<ErrorOccurred("Failed to submit search")>>
              /\ pc' = "done"
         ELSE \E o \in ReqOutcomes(t.client, t.config, None, SearchResponses, JobLogins) :
                LET b == o.response.body
                    ok == o.kind = "response" /\ o.response.status \in OkStatuses
                IN  /\ client' = o.client
                    /\ config' = o.config
                    /\ obs' = [NoObs EXCEPT !.resolved =
                                  IF ok /\ b.kind = "direct" THEN <<DirectData>> ELSE <<>>]
                    /\ IF ok /\ b.kind = "job"
                       THEN /\ job' = [NoJob EXCEPT !.id = b.id]
                            /\ signals' = <<>>
                            /\ pc' = "search_queue"
                       ELSE IF ok /\ b.kind = "direct"
                       THEN /\ job' = [NoJob EXCEPT !.id = "direct", !.ids = DirectData]
                            /\ signals' = <<>>
                            /\ pc' = "resolve"
                       ELSE IF ok /\ b.kind = "empty"
                       THEN /\ job' = [NoJob EXCEPT !.id = "direct"]
                            /\ signals' = <<ResultsReady(<<>>)>>
                            /\ pc' = "done"
                       ELSE /\ job' = NoJob
                            /\ signals' = <<ErrorOccurred("Failed to submit search")>>
                            /\ pc' = "done"
    /\ UNCHANGED <<req, gui>>

\* get_job_status: the parsed body, or None
JobStatusResult(o) ==
    IF o.kind = "response" /\ o.response.status \in OkStatuses
       /\ o.response.body.kind # "badjson"
    THEN [none |-> FALSE, body |-> o.response.body]
    ELSE [none |-> TRUE, body |-> JobBody("absent", 0, "absent", <<>>, "")]

\* Mutant: at progress 100 the resolver is called whatever the id list
QueueStepAlwaysResolves(o) ==
    IF ~(o.kind = "response" /\ o.response.status \in OkStatuses) THEN "none"
    ELSE LET b == o.response.body
             progress == IF b.kind = "dict" /\ b.progress_kind = "int" THEN b.progress ELSE 0
         IN  IF b.kind = "badjson" THEN "none"
             ELSE IF progress = 100 THEN "resolve" ELSE "poll"

\* What submit_search does with the answer to its queue request:
\* "none" (return None), "empty" (structures_info = []), "resolve"
\* (call get_structures_info) or "poll" (polling_needed)
QueueStep(o) ==
    IF ~(o.kind = "response" /\ o.response.status \in OkStatuses) THEN "none"
    ELSE LET b == o.response.body
             progress == IF b.kind = "dict" /\ b.progress_kind = "int" THEN b.progress ELSE 0
         IN  IF b.kind = "badjson" THEN "none"
             ELSE IF progress = 100
                  THEN IF StructureIds(b) # <<>> THEN "resolve" ELSE "empty"
                  ELSE "poll"

\* The queue request inside submit_search and what run() does with
\* submit_search's return value
SearchQueuePoll ==
    /\ pc = "search_queue"
    /\ \E o \in ReqOutcomes(client, config, None, JobResponses, JobLogins) :
         LET st == QueueStep(o)
             r == JobStatusResult(o)
         IN  /\ client' = o.client
             /\ config' = o.config
             /\ obs' = [obs EXCEPT !.polls = @ + 1, !.last_poll = r.body,
                                   !.last_none = r.none,
                                   !.status_update =
                                       CASE st = "poll" -> "Job submitted"
                                         [] st \in {"empty", "resolve"} -> "Search completed"
                                         [] OTHER -> "",
                                   !.resolved = IF st = "resolve"
                                                THEN Append(@, StructureIds(r.body)) ELSE @]
             /\ CASE st = "none" ->
                       /\ signals' = <<ErrorOccurred("Failed to submit search")>>
                       /\ job' = job
                       /\ pc' = "done"
                  [] st = "empty" ->
                       /\ signals' = <<ResultsReady(<<>>)>>
                       /\ job' = job
                       /\ pc' = "done"
                  [] st = "resolve" ->
                       /\ signals' = signals
                       /\ job' = [job EXCEPT !.ids = StructureIds(o.response.body)]
                       /\ pc' = "resolve"
                  [] st = "poll" ->
                       /\ signals' = signals
                       /\ job' = job
                       /\ pc' = "search_loop"
    /\ UNCHANGED <<flow, attempt, req, gui>>

\* max_attempts of SearchThread.run's polling loop
max_attempts_search == 60

\* Mutant: the loop runs once more
SearchLoopContinuesInclusive(a) == a <= max_attempts_search

\* `while attempt < max_attempts` of that loop
SearchLoopContinues(a) == a < max_attempts_search

\* Mutant: a completed job's ids are dropped and an empty result reported
LoopStepNeverResolves(r) ==
    IF r.none \/ r.body.kind = "empty" THEN "continue"
    ELSE LET b == r.body
             progress == IF b.progress_kind = "int" THEN b.progress ELSE 0
         IN  IF b.progress_kind # "null" /\ progress = 100 THEN "empty"
             ELSE IF b.status = "failed" THEN "failed" ELSE "continue"

\* One iteration of the loop on get_job_status's result: "empty"
\* (results_ready([])), "resolve", "failed" (error_occurred) or "continue"
\* (sleep, attempt += 1; also the except branch, taken when `progress > 0`
\* raises on a null progress)
LoopStep(r) ==
    IF r.none \/ r.body.kind = "empty" THEN "continue"
    ELSE LET b == r.body
             structure_ids == StructureIds(b)
             isNull == b.progress_kind = "null"
             progress == IF b.progress_kind = "int" THEN b.progress ELSE 0
         IN  IF ~isNull /\ progress = 100
             THEN IF structure_ids # <<>> THEN "resolve" ELSE "empty"
             ELSE IF structure_ids = <<>>
                  THEN IF isNull THEN "continue"
                       ELSE IF progress > 0 THEN "empty"
                       ELSE IF b.status = "failed" THEN "failed" ELSE "continue"
                  ELSE IF b.status = "failed" THEN "failed" ELSE "continue"

\* One iteration of SearchThread.run's polling loop: get_job_status
\* (test_connection, then the request) and the decision
SearchPoll ==
    /\ pc = "search_loop"
    /\ SearchLoopContinues(attempt)
    /\ \E t \in ConnOutcomes(client, config, JobLogins) :
         \E o \in (IF t.ok
                   THEN ReqOutcomes(t.client, t.config, None, JobResponses, JobLogins)
                   ELSE {[client |-> t.client, config |-> t.config, kind |-> "none",
                          response |-> [status |-> 0,
                                        body |-> JobBody("absent", 0, "absent", <<>>, "")]]}) :
            LET r == JobStatusResult(o)
                st == LoopStep(r)
            IN  /\ client' = o.client
                /\ config' = o.config
                /\ obs' = [obs EXCEPT !.polls = @ + 1, !.last_poll = r.body,
                                      !.last_none = r.none,
                                      !.status_update =
                                          IF r.none \/ r.body.kind = "empty"
                                          THEN "" ELSE "Search progress",
                                      !.resolved = IF st = "resolve"
                                                   THEN Append(@, StructureIds(r.body))
                                                   ELSE @]
                /\ CASE st = "continue" ->
                          /\ signals' = signals
                          /\ job' = job
                          /\ attempt' = attempt + 1
                          /\ pc' = "search_loop"
                     [] st = "empty" ->
                          /\ signals' = Append(signals, ResultsReady(<<>>))
                          /\ job' = job
                          /\ attempt' = attempt
                          /\ pc' = "done"
                     [] st = "failed" ->
                          /\ signals' = Append(signals, ErrorOccurred("Search job failed"))
                          /\ job' = job
                          /\ attempt' = attempt
                          /\ pc' = "done"
                     [] st = "resolve" ->
                          /\ signals' = signals
                          /\ job' = [job EXCEPT !.ids = StructureIds(r.body)]
                          /\ attempt' = attempt
                          /\ pc' = "resolve"
    /\ UNCHANGED <<flow, req, gui>>

\* The loop condition fails
SearchTimeout ==
    /\ pc = "search_loop"
    /\ ~SearchLoopContinues(attempt)
    /\ signals' = Append(signals, ErrorOccurred("Search timed out waiting for completion"))
    /\ pc' = "done"
    /\ UNCHANGED <<client, config, flow, attempt, job, req, obs, gui>>

\* Mutant: run() does not return after results_ready and reaches the
\* time-out notification
SearchResolvedFallsThrough ==
    /\ pc = "resolved"
    /\ flow = "search"
    /\ signals' = signals \o <<ResultsReady(job.structures),
                                ErrorOccurred("Search timed out waiting for completion")>>
    /\ pc' = "done"
    /\ UNCHANGED <<client, config, flow, attempt, job, req, obs, gui>>

\* get_structures_info has returned: results_ready.emit(structures)
SearchResolved ==
    /\ pc = "resolved"
    /\ flow = "search"
    /\ signals' = Append(signals, ResultsReady(job.structures))
    /\ pc' = "done"
    /\ UNCHANGED <<client, config, flow, attempt, job, req, obs, gui>>

\* Some client method calls _request_with_retry: without an Authorization
\* header of its own, or (download_structures_zip) with one built from
\* self.token
Request ==
    /\ pc = "idle"
    /\ \E hAuth \in {None, client.token} :
         \E o \in ReqOutcomes(client, config, hAuth, GenericResponses, LoginResponses) :
            /\ client' = o.client
            /\ config' = o.config
            /\ req' = Observe(o)
    /\ UNCHANGED <<pc, flow, attempt, job, obs, signals, gui>>

\* configure(base_url, api_key) is called
ConfigureCall ==
    /\ pc = "idle"
    /\ \E u \in RawUrls, k \in ApiKeys :
         /\ client' = Configure(client, u, k)
         /\ req' = [NoReq EXCEPT !.kind = "configure", !.url = u, !.key = k,
                                 !.before = client, !.after = Configure(client, u, k)]
    /\ UNCHANGED <<config, pc, flow, attempt, job, obs, signals, gui>>

\* login() is called; req.answer is the auth endpoint's answer, req.loginSent
\* the requests sent, req.loginOk the value returned
LoginCall ==
    /\ pc = "idle"
    /\ \E lr \in LoginResponses :
         LET l == Login(client, config, lr)
         IN  /\ client' = l.client
             /\ config' = l.config
             /\ req' = [NoReq EXCEPT !.kind = "login", !.answer = lr, !.logins = 1,
                                     !.loginSent = l.sent, !.loginOk = l.ok,
                                     !.before = client, !.after = l.client]
    /\ UNCHANGED <<pc, flow, attempt, job, obs, signals, gui>>

\* test_connection() is called; req.logins counts its calls of login()
TestConnectionCall ==
    /\ pc = "idle"
    /\ \E lr \in LoginResponses :
         LET t == TestConnection(client, config, lr)
             held == Truthy(client.token) /\ client.headers.Authorization # None
         IN  /\ client' = t.client
             /\ config' = t.config
             /\ req' = [NoReq EXCEPT !.kind = "test_connection", !.answer = lr,
                                     !.logins = IF is_configured(client) /\ ~held
                                                THEN 1 ELSE 0,
                                     !.loginSent = t.sent, !.loginOk = t.ok,
                                     !.before = client, !.after = t.client]
    /\ UNCHANGED <<pc, flow, attempt, job, obs, signals, gui>>

----------------------------------------------------------------------------
(* Project catalog: get_projects, get_project_structures and the Projects  *)
(* tab of the dialog                                                        *)

\* '3decision' as the characters compared in load_projects_for_tab
SYSTEM_PROJECT == <<"3", "d", "e", "c", "i", "s", "i", "o", "n">>

\* str.lower() on the characters that occur in the labels of the model
Lower(s) ==
    [i \in 1..Len(s) |-> CASE s[i] = "D" -> "d"
                            [] s[i] = "A" -> "a"
                            [] OTHER -> s[i]]

\* A project of the server's list; project_name <<>>: the key is missing
Project(project_label, project_name) ==
    [project_label |-> project_label, project_name |-> project_name]

\* The project lists a server answers GET /projects with
ProjectLists ==
    { <<>>,
      <<Project(<<"A", "b">>, <<>>), Project(SYSTEM_PROJECT, <<>>),
        Project(<<"b", "c">>, <<>>)>>,
      <<Project(<<"b", "c">>, <<>>),
        Project(<<"3", "D", "e", "c", "i", "s", "i", "o", "n">>, <<>>)>>,
      <<Project(SYSTEM_PROJECT, <<>>), Project(<<"A", "b">>, SYSTEM_PROJECT)>> }

\* Answers to a catalog request.  Bodies: unparsable, a list, an object
\* holding a list under 'projects' or 'results', an object without them
\* ("dict"), or another JSON value ("other")
CatalogResponses(Lists) ==
    LET sample == CHOOSE l \in Lists : Len(l) = 3
        bodies ==
            {[json |-> FALSE, shape |-> "other", items |-> <<>>]}
                \cup {[json |-> TRUE, shape |-> "list", items |-> l] : l \in Lists}
                \cup {[json |-> TRUE, shape |-> sh, items |-> sample] :
                        sh \in {"projects", "results"}}
                \cup {[json |-> TRUE, shape |-> sh, items |-> <<>>] :
                        sh \in {"dict", "other"}}
    IN  {[status |-> 200, body |-> b] : b \in bodies}
            \cup {[status |-> 201,
                   body |-> [json |-> TRUE, shape |-> "list", items |-> sample]]}
            \cup {[status |-> st,
                   body |-> [json |-> FALSE, shape |-> "other", items |-> <<>>]] :
                    st \in FailStatuses}

\* Mutant: status 201 is taken as well
CatalogAccepts201(response) == response.status \in {200, 201}

\* `if response.status_code == 200` of the catalog operations
CatalogAccepts(response) == response.status = 200

\* What a catalog operation does with its request's outcome: it returns a
\* list or raises.  get_projects looks for the list under 'projects' and
\* 'results', get_project_structures under 'results'.
CatalogStep(op, o) ==
    LET r == [Observe(o) EXCEPT !.op = op]
        CatalogList(opn, body) ==
            IF body.shape = "list" THEN body.items
            ELSE IF body.shape = "projects" /\ opn = "get_projects" THEN body.items
            ELSE IF body.shape = "results" THEN body.items
            ELSE <<>>
    IN  IF o.kind = "response" /\ CatalogAccepts(o.response) /\ o.response.body.json
        THEN [client |-> o.client, config |-> o.config,
              req |-> [r EXCEPT !.list = CatalogList(op, o.response.body)]]
        ELSE [client |-> o.client, config |-> o.config,
              req |-> [r EXCEPT !.raised = TRUE]]

\* get_projects() / get_project_structures(project_id), with every answer
\* of R to the request: the client and the file afterwards, and in req
\* whether the call raised and the list it returned
CatalogOutcomes(op, c, cfg, R) ==
    LET early(c1, cfg1) ==
            [client |-> c1, config |-> cfg1,
             req |-> [NoReq EXCEPT !.op = op, !.raised = TRUE,
                                   !.before = c, !.after = c1]]
    IN  IF ~is_configured(c) THEN {early(c, cfg)}
        ELSE UNION { IF ~t.ok THEN {early(t.client, t.config)}
                     ELSE {CatalogStep(op, o) :
                             o \in ReqOutcomes(t.client, t.config, None, R, JobLogins)}
                     : t \in ConnOutcomes(c, cfg, JobLogins) }

\* transform: the flat list under ReferenceTransforms.transform
\* (ref_dict = FALSE: ReferenceTransforms is missing); matrix: the value
\* under the key 'matrix' (<<>> when there is none)
Assignment(structure_id, external_code, ref_dict, transform, matrix) ==
    [structure_id |-> structure_id, external_code |-> external_code,
     ref_dict |-> ref_dict, transform |-> transform, matrix |-> matrix]

\* identity_matrix of LoadStructureThread.run
identity_matrix == <<1, 0, 0, 0,  0, 1, 0, 0,  0, 0, 1, 0,  0, 0, 0, 1>>

\* Mutant: ReferenceTransforms is not looked at
TransformMatrixOfAnything(s) ==
    IF s.transform # <<>> /\ Len(s.transform) = 16
    THEN <<SubSeq(s.transform, 1, 4), SubSeq(s.transform, 5, 8),
           SubSeq(s.transform, 9, 12), SubSeq(s.transform, 13, 16)>>
    ELSE <<>>

\* Mutant: the second row starts one element late
ReshapeShifted(transform) ==
    <<SubSeq(transform, 1, 4), SubSeq(transform, 6, 9),
      SubSeq(transform, 9, 12), SubSeq(transform, 13, 16)>>

\* [transform[0:4], transform[4:8], transform[8:12], transform[12:16]]
Reshape(transform) ==
    <<SubSeq(transform, 1, 4), SubSeq(transform, 5, 8),
      SubSeq(transform, 9, 12), SubSeq(transform, 13, 16)>>

\* The lists a server answers GET /projects/{id}/structures/matrix with
AssignmentLists ==
    LET Transform16 == [i \in 1..16 |-> i]
        NoMatrix == <<>>
    IN
    { <<>>,
      <<Assignment(101, <<"c", "1">>, TRUE, Transform16, NoMatrix),
        Assignment(102, <<"c", "2">>, FALSE, <<>>, NoMatrix)>>,
      <<Assignment(102, <<"c", "2">>, TRUE, SubSeq(Transform16, 1, 15), NoMatrix),
        Assignment(0, <<"c", "0">>, TRUE, Transform16, NoMatrix),
        Assignment(101, <<"c", "1">>, TRUE, identity_matrix,
                   <<<<1, 2, 3, 4>>, <<5, 6, 7>>, <<8, 9, 10, 11>>, <<12, 13, 14, 15>>>>)>>,
      <<Assignment(101, <<"c", "1">>, FALSE, Transform16,
                   <<<<1, 2, 3, 4>>, <<5, 6, 7, 8>>, <<9, 10, 11, 12>>>>),
        Assignment(101, <<"c", "1">>, TRUE, <<>>, Reshape(Transform16))>> }

\* `matrix` of load_project_structures_in_tab for the assignment s
TransformMatrix(s) ==
    IF s.ref_dict /\ s.transform # <<>> /\ Len(s.transform) = 16
    THEN Reshape(s.transform)
    ELSE <<>>

\* enriched_structures of load_project_structures_in_tab.  details_map
\* holds the last record of detailed_structures with each id; an enriched
\* entry is a copy of that record with TRANSFORM_MATRIX set.
EnrichedStructures(structures, detailed_structures) ==
    [i \in 1..Len(structures) |->
        LET s == structures[i]
            structure_id == s.structure_id
            DetailsMap(d, sid) ==
                d[Max({j \in 1..Len(d) : d[j].structure_id = sid})]
            Enriched(detail, matrix) ==
                [structure_id |-> detail.structure_id, tag |-> detail.tag,
                 external_code |-> <<"N", "/", "A">>,
                 TRANSFORM_MATRIX |-> matrix, matrix |-> <<>>]
        IN  IF /\ structure_id # NoId /\ structure_id # 0
               /\ \E j \in 1..Len(detailed_structures) :
                     detailed_structures[j].structure_id = structure_id
            THEN Enriched(DetailsMap(detailed_structures, structure_id), TransformMatrix(s))
            ELSE s]

\* selected_structures of load_selected_project_structures: the rows
\* without structure_id are left out; a row's matrix is TRANSFORM_MATRIX or
\* else matrix
RECURSIVE SelectedStructures(_, _)
SelectedStructures(structures, rows) ==
    IF rows = <<>> THEN <<>>
    ELSE LET structure == structures[Head(rows)]
             RowMatrix(st) ==
                 IF "TRANSFORM_MATRIX" \in DOMAIN st /\ st.TRANSFORM_MATRIX # <<>>
                 THEN st.TRANSFORM_MATRIX
                 ELSE st.matrix
             rest == SelectedStructures(structures, Tail(rows))
         IN  IF structure.structure_id # NoId /\ structure.structure_id # 0
             THEN <<[structure_id |-> structure.structure_id,
                     external_code |-> structure.external_code,
                     matrix |-> RowMatrix(structure)]>> \o rest
             ELSE rest

\* The loop over the rows of a matrix: None (<<>>) at the first row that
\* has not four elements
RECURSIVE FlatMatrix(_, _)
FlatMatrix(rows, flat_matrix) ==
    IF rows = <<>> THEN flat_matrix
    ELSE IF Len(Head(rows)) = 4
         THEN FlatMatrix(Tail(rows), flat_matrix \o Head(rows))
         ELSE <<>>

\* Mutant: what the loop gave is sent as it is
TransformOfUnchecked(matrix) ==
    IF matrix # <<>> THEN FlatMatrix(matrix, <<>>)
    ELSE <<1, 0, 0, 0,  0, 1, 0, 0,  0, 0, 1, 0,  0, 0, 0, 1>>

\* The transform LoadStructureThread.run sends for a matrix
TransformOf(matrix) ==
    IF matrix # <<>>
    THEN IF Len(matrix) = 4
         THEN LET flat_matrix == FlatMatrix(matrix, <<>>)
              IN  IF flat_matrix # <<>> /\ Len(flat_matrix) = 16
                  THEN flat_matrix ELSE identity_matrix
         ELSE identity_matrix
    ELSE identity_matrix

\* structures_with_transforms of LoadStructureThread.run
StructuresWithTransforms(structure_data) ==
    [i \in 1..Len(structure_data) |->
        [structure_id |-> structure_data[i].structure_id,
         external_code |-> structure_data[i].external_code,
         transform |-> TransformOf(structure_data[i].matrix)]]

\* get_projects() is called
GetProjects ==
    /\ pc = "idle"
    /\ \E x \in CatalogOutcomes("get_projects", client, config,
                                 CatalogResponses(ProjectLists)) :
         /\ client' = x.client
         /\ config' = x.config
         /\ req' = x.req
    /\ UNCHANGED <<pc, flow, attempt, job, obs, signals, gui>>

\* The loop of load_projects_for_tab that drops the system project
FilterSystemProject(projects) ==
    LET Keep(project) == /\ Lower(project.project_label) # SYSTEM_PROJECT
                         /\ Lower(project.project_name) # SYSTEM_PROJECT
    IN  SelectSeq(projects, Keep)

\* load_projects_for_tab (tab opened, Refresh clicked): is_authenticated(),
\* a second test_connection() when that fails, get_projects(), the filter,
\* populate_projects_table().  An exception leaves the tab as it was.
LoadProjectsForTab ==
    /\ pc = "idle"
    /\ \E a \in ConnOutcomes(client, config, JobLogins) :
         \E b \in (IF a.ok THEN {a} ELSE ConnOutcomes(a.client, a.config, JobLogins)) :
            IF ~b.ok
            THEN /\ client' = b.client
                 /\ config' = b.config
                 /\ req' = [NoReq EXCEPT !.op = "load_projects_for_tab", !.raised = TRUE]
                 /\ gui' = gui
            ELSE \E x \in CatalogOutcomes("get_projects", b.client, b.config,
                                          CatalogResponses(ProjectLists)) :
                    /\ client' = x.client
                    /\ config' = x.config
                    /\ req' = [x.req EXCEPT !.op = "load_projects_for_tab"]
                    /\ gui' = IF x.req.raised THEN gui
                              ELSE [gui EXCEPT
                                      !.projects_data = FilterSystemProject(x.req.list),
                                      !.projects_table = FilterSystemProject(x.req.list)]
    /\ UNCHANGED <<pc, flow, attempt, job, obs, signals>>

\* apply_projects_filters after the text of the name filter changed (the
\* owner, structure-count and id filters stay empty)
ApplyProjectsFilters ==
    /\ pc = "idle"
    /\ \E text \in {<<>>, <<"B">>, <<"3", "d">>} :
         LET filter_name == Lower(text)
             Contains(sub, label) ==
                 \E i \in 0..(Len(label) - Len(sub)) :
                     SubSeq(label, i + 1, i + Len(sub)) = sub
             Keep(project) == ~(filter_name # <<>>
                                /\ ~Contains(filter_name, Lower(project.project_label)))
         IN  gui' = [gui EXCEPT !.filter_name = text,
                                !.projects_table =
                                    IF gui.projects_data = <<>> THEN @
                                    ELSE SelectSeq(gui.projects_data, Keep)]
    /\ UNCHANGED <<client, config, pc, flow, attempt, job, req, obs, signals>>

\* get_project_structures(project_id) is called
GetProjectStructures ==
    /\ pc = "idle"
    /\ \E x \in CatalogOutcomes("get_project_structures", client, config,
                                 CatalogResponses(AssignmentLists)) :
         /\ client' = x.client
         /\ config' = x.config
         /\ req' = x.req
    /\ UNCHANGED <<pc, flow, attempt, job, obs, signals, gui>>

\* The structure_ids that load_project_structures_in_tab asks details for
RECURSIVE AssignmentIds(_)
AssignmentIds(structures) ==
    IF structures = <<>> THEN <<>>
    ELSE LET structure_id == Head(structures).structure_id
         IN  IF structure_id # NoId /\ structure_id # 0
             THEN <<structure_id>> \o AssignmentIds(Tail(structures))
             ELSE AssignmentIds(Tail(structures))

\* load_project_structures_in_tab up to its call of get_structures_info
LoadProjectStructuresInTab ==
    /\ pc = "idle"
    /\ \E x \in CatalogOutcomes("get_project_structures", client, config,
                                 CatalogResponses(AssignmentLists)) :
         /\ client' = x.client
         /\ config' = x.config
         /\ req' = x.req
         /\ IF x.req.raised
            THEN UNCHANGED <<pc, flow, job, gui>>
            ELSE IF x.req.list = <<>>
                 THEN /\ gui' = [gui EXCEPT !.current_project_structures = <<>>]
                      /\ UNCHANGED <<pc, flow, job>>
                 ELSE /\ job' = [NoJob EXCEPT !.assignments = x.req.list,
                                              !.ids = AssignmentIds(x.req.list)]
                      /\ flow' = "project"
                      /\ pc' = "resolve"
                      /\ gui' = gui
    /\ obs' = NoObs
    /\ UNCHANGED <<attempt, signals>>

\* The rest of load_project_structures_in_tab, with detailed_structures in
\* job.structures
MergeProjectStructures ==
    /\ pc = "resolved"
    /\ flow = "project"
    /\ gui' = [gui EXCEPT !.current_project_structures =
                              EnrichedStructures(job.assignments, job.structures)]
    /\ pc' = "done"
    /\ UNCHANGED <<client, config, flow, attempt, job, req, obs, signals>>

\* load_selected_project_structures and LoadStructureThread.run up to the
\* export calls: job.structure_data is the thread's argument, job.items the
\* structures_with_transforms passed to export_structures_with_transforms
\* (job.why = "transforms"); without any matrix the structures are exported
\* one by one with export_structure_pdb (job.why = "plain").  The rows
\* selected are all rows or one row.
LoadSelectedProjectStructures ==
    /\ pc = "idle"
    /\ gui.current_project_structures # <<>>
    /\ \E rows \in {[i \in 1..Len(gui.current_project_structures) |-> i]}
                      \cup {<<i>> : i \in 1..Len(gui.current_project_structures)} :
         LET selected == SelectedStructures(gui.current_project_structures, rows)
             HasMatrices(structure_data) ==
                 \E i \in 1..Len(structure_data) : structure_data[i].matrix # <<>>
         IN  /\ selected # <<>>
             /\ job' = [NoJob EXCEPT
                          !.structure_data = selected,
                          !.items = IF HasMatrices(selected)
                                    THEN StructuresWithTransforms(selected) ELSE <<>>,
                          !.why = IF HasMatrices(selected) THEN "transforms" ELSE "plain"]
    /\ flow' = "load"
    /\ pc' = "done"
    /\ obs' = NoObs
    /\ UNCHANGED <<client, config, attempt, req, signals, gui>>

\* Mutant: a 404 is handled like any other failing status
AssociatedFilesStepLogs404(o) ==
    LET r == [Observe(o) EXCEPT !.op = "get_associated_files"]
    IN  IF o.kind = "response" /\ o.response.status = 200 /\ o.response.body.json
        THEN [r EXCEPT !.list = IF o.response.body.shape \in {"list", "files", "results"}
                                THEN o.response.body.items ELSE <<>>,
                       !.logged = IF o.response.body.shape \in {"list", "files", "results"}
                                  THEN "debug" ELSE "error"]
        ELSE [r EXCEPT !.logged = IF o.kind = "none" THEN "" ELSE "error"]

\* get_associated_files after its request: the list returned (req.list)
\* and the level of what was logged on the way out (req.logged)
AssociatedFilesStep(o) ==
    LET r == [Observe(o) EXCEPT !.op = "get_associated_files"]
    IN  IF o.kind = "response" /\ o.response.status = 200 /\ o.response.body.json
        THEN [r EXCEPT !.list = IF o.response.body.shape \in {"list", "files", "results"}
                                THEN o.response.body.items ELSE <<>>,
                       !.logged = IF o.response.body.shape \in {"list", "files", "results"}
                                  THEN "debug" ELSE "error"]
        ELSE IF o.kind = "response" /\ o.response.status = 404
             THEN [r EXCEPT !.logged = "debug"]
             ELSE [r EXCEPT !.logged = IF o.kind = "none" THEN "" ELSE "error"]

\* get_associated_files(external_code) is called.  Bodies of the answer:
\* unparsable, a list, an object holding the list under 'files' or
\* 'results', another object, another JSON value.
GetAssociatedFiles ==
    /\ pc = "idle"
    /\ \E t \in ConnOutcomes(client, config, JobLogins) :
         IF ~t.ok
         THEN /\ client' = t.client
              /\ config' = t.config
              /\ req' = [NoReq EXCEPT !.op = "get_associated_files", !.logged = "error",
                                      !.before = client, !.after = t.client]
         ELSE LET files == {<<>>, <<"f1">>, <<"f1", "f2">>}
                  bodies ==
                      {[json |-> FALSE, shape |-> "other", items |-> <<>>]}
                          \cup {[json |-> TRUE, shape |-> sh, items |-> l] :
                                  sh \in {"list", "files", "results"}, l \in files}
                          \cup {[json |-> TRUE, shape |-> sh, items |-> <<>>] :
                                  sh \in {"dict", "other"}}
                  R == {[status |-> 200, body |-> b] : b \in bodies}
                          \cup {[status |-> st,
                                 body |-> [json |-> FALSE, shape |-> "other", items |-> <<>>]] :
                                  st \in {201, 404} \cup FailStatuses}
              IN  \E o \in ReqOutcomes(t.client, t.config, None, R, JobLogins) :
                     /\ client' = o.client
                     /\ config' = o.config
                     /\ req' = AssociatedFilesStep(o)
    /\ UNCHANGED <<pc, flow, attempt, job, obs, signals, gui>>

\* download_structures_zip(structure_ids, matrices) is called by itself
DownloadStructuresZip == ExportStart("zipfile")

----------------------------------------------------------------------------
(* The dialog and its threads.  gui.threads holds every SearchThread and   *)
(* LoadStructureThread started, in order; gui.search_thread and            *)
(* gui.load_thread are the dialog's self.search_thread / self.load_thread  *)
(* (an index into threads, 0 for None).  gui.posted holds the signals the  *)
(* threads have emitted and the dialog's slots have not yet run for, in    *)
(* order.  submit_button, load_button, load_project_structures_button:     *)
(* the widget is enabled.  after_close: what happened after closeEvent.    *)

\* The threads started between two starts of the plugin, as indices of
\* gui.threads
ThreadIds == {1, 2}

\* Requests counted for one SearchThread
MaxRequests == 1

\* Rows selected for one load
MaxSelected == 2

\* A QThread constructed and started.  n: len(structure_data); todo: the
\* structures the loop has not reached; control: the button whose click
\* started it; requests: the requests a SearchThread has sent; emitted: the
\* signals a LoadStructureThread has emitted but status_update, in order
Thread(kind, control, n, has_matrices) ==
    [kind |-> kind, control |-> control, state |-> "running", n |-> n, todo |-> n,
     has_matrices |-> has_matrices, requests |-> 0, emitted |-> <<>>]

Signal(sig, i, item, n) == [sig |-> sig, thread |-> i, item |-> item, n |-> n]

Running(i) == gui.threads[i].state = "running"

\* check_login_status(): the client and the config file afterwards and
\* whether submit_button is enabled
CheckLoginStatus(c, cfg, lr) ==
    IF is_configured(c) THEN TestConnection(c, cfg, lr)
    ELSE [client |-> c, config |-> cfg, ok |-> FALSE, sent |-> 0]

\* open_settings: the settings dialog is run and Save is clicked; when the
\* login succeeds the dialog is accepted and check_login_status() follows,
\* else the dialog stays open until it is dismissed
OpenSettings ==
    /\ pc = "idle"
    /\ ~gui.closed
    /\ \E k \in ApiKeys, lr \in JobLogins :
         LET c1 == Configure(client, <<"x">>, k)
             l == Login(c1, SaveConfig(c1), lr)
             s == CheckLoginStatus(l.client, l.config, lr)
         IN  IF l.ok
             THEN /\ client' = s.client
                  /\ config' = s.config
                  /\ gui' = [gui EXCEPT !.submit_button = s.ok]
             ELSE /\ client' = l.client
                  /\ config' = l.config
                  /\ gui' = gui
    /\ UNCHANGED <<pc, flow, attempt, job, req, obs, signals>>

\* submit_search, connected to submit_button.clicked and to
\* search_input.returnPressed, with a query entered
SubmitSearch ==
    /\ pc = "idle"
    /\ ~gui.closed
    /\ Len(gui.threads) + 1 \in ThreadIds
    /\ is_configured(client)
    /\ \E via \in {"clicked", "returnPressed"} :
         via = "clicked" => gui.submit_button
    /\ gui' = [gui EXCEPT !.threads = Append(@, Thread("search", "", 0, FALSE)),
                          !.search_thread = Len(gui.threads) + 1,
                          !.submit_button = FALSE]
    /\ UNCHANGED <<client, config, pc, flow, attempt, job, req, obs, signals>>

\* A SearchThread sends a request (submit_search or a poll)
SearchThreadRequest ==
    /\ pc = "idle"
    /\ \E i \in DOMAIN gui.threads :
         /\ Running(i)
         /\ gui.threads[i].kind = "search"
         /\ gui.threads[i].requests < MaxRequests
         /\ gui' = [gui EXCEPT !.threads[i].requests = @ + 1,
                               !.after_close = IF gui.closed THEN @ \cup {"request"} ELSE @]
    /\ UNCHANGED <<client, config, pc, flow, attempt, job, req, obs, signals>>

\* A SearchThread emits its terminal signal and run() returns.  n: the
\* number of structures of results_ready
SearchThreadEnd ==
    /\ pc = "idle"
    /\ \E i \in DOMAIN gui.threads, sig \in {"results_ready", "error_occurred"}, n \in {0, 1} :
         /\ Running(i)
         /\ gui.threads[i].kind = "search"
         /\ sig = "error_occurred" => n = 0
         /\ gui' = [gui EXCEPT !.threads[i].state = "finished",
                               !.posted = Append(@, Signal(sig, i, 0, n))]
    /\ UNCHANGED <<client, config, pc, flow, attempt, job, req, obs, signals>>

\* The dialog's slot runs for the first posted signal.  A thread that has
\* returned and has no signal left to handle plays no further part: what
\* it was started with is dropped from its record (state "retired").
Delivered ==
    LET i == Head(gui.posted).thread
        t == gui.threads[i]
        last == t.state = "finished" /\ \A k \in 2..Len(gui.posted) : gui.posted[k].thread # i
    IN  [gui EXCEPT !.posted = Tail(@),
                    !.threads[i] = IF last
                                   THEN [Thread(t.kind, "", 0, FALSE) EXCEPT !.state = "retired"]
                                   ELSE t,
                    !.after_close = IF gui.closed THEN @ \cup {"notification"} ELSE @]

\* display_results(structures), with populate_results_table
DisplayResults ==
    /\ pc = "idle"
    /\ gui.posted # <<>>
    /\ Head(gui.posted).sig = "results_ready"
    /\ \E lr \in JobLogins :
         LET s == CheckLoginStatus(client, config, lr)
         IN  /\ client' = s.client
             /\ config' = s.config
             /\ gui' = [Delivered EXCEPT !.submit_button = s.ok,
                                         !.load_button = Head(gui.posted).n > 0]
    /\ UNCHANGED <<pc, flow, attempt, job, req, obs, signals>>

\* handle_search_error(error_message)
HandleSearchError ==
    /\ pc = "idle"
    /\ gui.posted # <<>>
    /\ Head(gui.posted).sig = "error_occurred"
    /\ gui.threads[Head(gui.posted).thread].kind = "search"
    /\ \E lr \in JobLogins :
         LET s == CheckLoginStatus(client, config, lr)
         IN  /\ client' = s.client
             /\ config' = s.config
             /\ gui' = [Delivered EXCEPT !.submit_button = s.ok]
    /\ UNCHANGED <<pc, flow, attempt, job, req, obs, signals>>

\* The thread start of load_selected_structures (control load_button) and
\* of load_selected_project_structures (load_project_structures_button),
\* with n rows selected.  Only project rows carry a matrix.
LoadStart(control) ==
    /\ pc = "idle"
    /\ ~gui.closed
    /\ Len(gui.threads) + 1 \in ThreadIds
    /\ gui[control]
    /\ \E n \in 1..MaxSelected, has_matrices \in BOOLEAN :
         /\ has_matrices => control = "load_project_structures_button"
         /\ gui' = [gui EXCEPT !.threads = Append(@, Thread("load", control, n, has_matrices)),
                               !.load_thread = Len(gui.threads) + 1,
                               ![control] = FALSE]
    /\ UNCHANGED <<client, config, pc, flow, attempt, job, req, obs, signals>>

\* populate_project_structures_table(structures) at the end of
\* load_project_structures_in_tab: the button is enabled when the project
\* has structures
PopulateProjectStructuresTable ==
    /\ pc = "idle"
    /\ ~gui.closed
    /\ \E structures \in {0, 1} :
         gui' = [gui EXCEPT !.load_project_structures_button = structures > 0]
    /\ UNCHANGED <<client, config, pc, flow, attempt, job, req, obs, signals>>

LoadSelectedStructures == LoadStart("load_button")

LoadSelectedProjectStructuresStart == LoadStart("load_project_structures_button")

\* Mutant: a failed export ends the loop
LoadItemStopsOnFailure(t, i, outcome) ==
    LET item == t.n - t.todo + 1
    IN  CASE outcome = "loaded" ->
               <<Signal("structure_loaded", i, item, 0)>>
          [] outcome = "failed" ->
               <<Signal("error_occurred", i, item, 0),
                 Signal("all_structures_loaded", i, 0, 0)>>
          [] outcome = "raised" ->
               <<Signal("error_occurred", i, 0, 0)>>

\* One iteration of the loop of LoadStructureThread.run without matrices:
\* the signals emitted for structure number item.  outcome: "loaded",
\* "failed" (export_structure_pdb returned None) or "raised" (a PyMOL call
\* raised and the outer except emitted "Loading error")
LoadItem(t, i, outcome) ==
    LET item == t.n - t.todo + 1
    IN  CASE outcome = "loaded" -> <<Signal("structure_loaded", i, item, 0)>>
          [] outcome = "failed" -> <<Signal("error_occurred", i, item, 0)>>
          [] outcome = "raised" -> <<Signal("error_occurred", i, 0, 0)>>

\* The batch branch of LoadStructureThread.run: one export for all the
\* structures, then one structure_loaded for each
LoadBatch(t, i, outcome) ==
    CASE outcome = "loaded" -> [k \in 1..t.n |-> Signal("structure_loaded", i, k, 0)]
      [] outcome \in {"failed", "raised"} -> <<Signal("error_occurred", i, 0, 0)>>

\* A LoadStructureThread exports and loads: one structure, or the batch
LoadThreadStep ==
    /\ pc = "idle"
    /\ \E i \in DOMAIN gui.threads, outcome \in {"loaded", "failed", "raised"} :
         LET t == gui.threads[i]
             out == IF t.has_matrices THEN LoadBatch(t, i, outcome)
                    ELSE LoadItem(t, i, outcome)
             stop == out[Len(out)].sig = "all_structures_loaded" \/ outcome = "raised"
         IN  /\ Running(i)
             /\ t.kind = "load"
             /\ t.todo > 0
             /\ gui' = [gui EXCEPT !.threads[i].todo = IF t.has_matrices THEN 0 ELSE @ - 1,
                                   !.threads[i].state = IF stop THEN "finished" ELSE @,
                                   !.threads[i].emitted = @ \o out,
                                   !.posted = @ \o out,
                                   !.after_close = IF gui.closed THEN @ \cup {"request"}
                                                   ELSE @]
    /\ UNCHANGED <<client, config, pc, flow, attempt, job, req, obs, signals>>

\* The loop is over: all_structures_loaded.emit() and run() returns
LoadThreadEnd ==
    /\ pc = "idle"
    /\ \E i \in DOMAIN gui.threads :
         /\ Running(i)
         /\ gui.threads[i].kind = "load"
         /\ gui.threads[i].todo = 0
         /\ gui' = [gui EXCEPT !.threads[i].state = "finished",
                               !.threads[i].emitted =
                                   Append(@, Signal("all_structures_loaded", i, 0, 0)),
                               !.posted = Append(@, Signal("all_structures_loaded", i, 0, 0))]
    /\ UNCHANGED <<client, config, pc, flow, attempt, job, req, obs, signals>>

\* handle_structure_loaded(structure_id, object_name)
HandleStructureLoaded ==
    /\ pc = "idle"
    /\ gui.posted # <<>>
    /\ Head(gui.posted).sig = "structure_loaded"
    /\ gui' = Delivered
    /\ UNCHANGED <<client, config, pc, flow, attempt, job, req, obs, signals>>

\* handle_load_error(error_message)
HandleLoadError ==
    /\ pc = "idle"
    /\ gui.posted # <<>>
    /\ Head(gui.posted).sig = "error_occurred"
    /\ gui.threads[Head(gui.posted).thread].kind = "load"
    /\ gui' = [Delivered EXCEPT !.load_button = TRUE,
                                !.load_project_structures_button = TRUE]
    /\ UNCHANGED <<client, config, pc, flow, attempt, job, req, obs, signals>>

\* handle_all_structures_loaded()
HandleAllStructuresLoaded ==
    /\ pc = "idle"
    /\ gui.posted # <<>>
    /\ Head(gui.posted).sig = "all_structures_loaded"
    /\ \E lr \in JobLogins :
         LET s == CheckLoginStatus(client, config, lr)
         IN  /\ client' = s.client
             /\ config' = s.config
             /\ gui' = [Delivered EXCEPT !.load_button = TRUE,
                                         !.load_project_structures_button = TRUE,
                                         !.submit_button = s.ok]
    /\ UNCHANGED <<pc, flow, attempt, job, req, obs, signals>>

\* closeEvent: terminate() and wait() for self.search_thread and
\* self.load_thread when they are running
CloseEvent ==
    /\ pc = "idle"
    /\ ~gui.closed
    /\ gui' = [gui EXCEPT !.closed = TRUE,
                          !.threads = [i \in DOMAIN gui.threads |->
                              IF i \in {gui.search_thread, gui.load_thread} /\ Running(i)
                              THEN [gui.threads[i] EXCEPT !.state = "terminated"]
                              ELSE gui.threads[i]]]
    /\ UNCHANGED <<client, config, pc, flow, attempt, job, req, obs, signals>>

----------------------------------------------------------------------------
(* Specifications.  SpecSession: the session under every handler that      *)
(* changes it, and single requests.  SpecExport: the export flows of a     *)
(* client configured through the settings dialog.                          *)

NextSession ==
    \/ Restart
    \/ SaveSettings
    \/ ConnectionTest
    \/ Request
    \/ ConfigureCall
    \/ LoginCall
    \/ TestConnectionCall
    \/ GetAssociatedFiles

SpecSession == Init /\ [][NextSession]_vars

NextExport ==
    \/ Setup
    \/ \E f \in ExportFlows : ExportStart(f)
    \/ DownloadStructuresZip
    \/ ExportPoll
    \/ ExportTimeout
    \/ ExportDownload
    \/ Finished

SpecExport == Init /\ [][NextExport]_vars

NextSearch ==
    \/ Setup
    \/ SearchStart
    \/ SearchQueuePoll
    \/ SearchPoll
    \/ SearchTimeout
    \/ Resolve
    \/ SearchResolved
    \/ Finished

SpecSearch == Init /\ [][NextSearch]_vars

NextResolve ==
    \/ Setup
    \/ ResolveStart
    \/ ResolveBatch
    \/ ResolveReturn
    \/ Finished

SpecResolve == Init /\ [][NextResolve]_vars

NextCatalog ==
    \/ Restart
    \/ Setup
    \/ GetProjects
    \/ LoadProjectsForTab
    \/ ApplyProjectsFilters
    \/ GetProjectStructures
    \/ LoadProjectStructuresInTab
    \/ ResolveBatch
    \/ MergeProjectStructures
    \/ LoadSelectedProjectStructures
    \/ Finished

SpecCatalog == Init /\ [][NextCatalog]_vars

NextGui ==
    \/ Restart
    \/ OpenSettings
    \/ SubmitSearch
    \/ SearchThreadRequest
    \/ SearchThreadEnd
    \/ DisplayResults
    \/ HandleSearchError
    \/ LoadSelectedStructures
    \/ PopulateProjectStructuresTable
    \/ LoadSelectedProjectStructuresStart
    \/ LoadThreadStep
    \/ LoadThreadEnd
    \/ HandleStructureLoaded
    \/ HandleLoadError
    \/ HandleAllStructuresLoaded
    \/ CloseEvent

SpecGui == Init /\ [][NextGui]_vars

NextLoad ==
    \/ Restart
    \/ PopulateProjectStructuresTable
    \/ LoadSelectedProjectStructuresStart
    \/ LoadSelectedStructures
    \/ LoadThreadStep
    \/ LoadThreadEnd
    \/ HandleStructureLoaded
    \/ HandleLoadError
    \/ HandleAllStructuresLoaded

SpecLoad == Init /\ [][NextLoad]_vars

----------------------------------------------------------------------------
(* Properties *)

Last(s) == s[Len(s)]

\* C1: a call of _request_with_retry makes at most one login attempt and
\* sends the request at most twice; the second send happens only after a
\* 401/403 answer and a successful re-login (and then always happens), it
\* carries the token the re-login obtained, and its answer is what the call
\* returns, whatever its status.
C1_AtMostOneRetry ==
    /\ req.logins <= 1
    /\ req.sends <= 2
    /\ (req.first \in AuthStatuses /\ req.loginOk) => req.sends = 2
    /\ req.sends = 2 =>
         /\ req.first \in AuthStatuses
         /\ req.logins = 1
         /\ req.loginOk
         /\ Truthy(req.after.token)
         /\ req.auth2 = req.after.token
         /\ req.kind \in {"response", "raised"}
         /\ req.kind = "response" => req.status = req.second

\* C1: a retried request, sent with a token other than the first send's,
\* is answered 401/403 again and that answer is returned
C1_Witness ==
    /\ req.sends = 2
    /\ req.kind = "response"
    /\ req.status \in AuthStatuses
    /\ Truthy(req.auth1)
    /\ req.auth2 # req.auth1

\* C2: when the answer is 401/403 and the re-login fails, the call returns
\* None without a second send, and the client holds no token and no
\* Authorization header, with base_url and api_key as before.
C2_ReloginFailure ==
    (req.first \in AuthStatuses /\ req.logins = 1 /\ ~req.loginOk) =>
        /\ req.kind = "none"
        /\ req.sends = 1
        /\ ~Truthy(req.after.token)
        /\ req.after.headers.Authorization = None
        /\ req.after.base_url = req.before.base_url
        /\ req.after.api_key = req.before.api_key

\* C2: the re-login failed on a client that held a token and its header
C2_Witness ==
    /\ req.first \in AuthStatuses
    /\ req.logins = 1
    /\ ~req.loginOk
    /\ req.loginSent = 1
    /\ Truthy(req.before.token)
    /\ req.before.headers.Authorization # None

\* C3: an export never polls the domain event more than 30 times; while it
\* polls, every poll so far was non-terminal; after 30 such polls the only
\* step left is the time-out, which ends the export with None.
C3_ExportPollCap ==
    flow \in ExportFlows =>
        /\ obs.polls <= 30
        /\ pc = "export_poll" => obs.polls = attempt
        /\ (pc = "export_poll" /\ attempt = 30) =>
              (ENABLED ExportTimeout /\ ~ENABLED ExportPoll)
        /\ job.why = "timeout" => (pc = "done" /\ obs.polls = 30 /\ ~job.result.ok)

\* C3: a one-item transform export has timed out after 30 polls
C3_Witness ==
    /\ flow = "single"
    /\ pc = "done"
    /\ job.why = "timeout"
    /\ obs.polls = 30

TimedOut ==
    /\ signals # <<>>
    /\ Last(signals) = ErrorOccurred("Search timed out waiting for completion")

\* C4, as claimed: one search polls the job-status resource at most 60
\* times, and a time-out is the end of it.
C4_Claim ==
    flow = "search" =>
        /\ obs.polls <= 60
        /\ TimedOut => pc = "done"

\* C4, amended: one search polls the job-status resource once inside
\* submit_search and at most 60 times in SearchThread's loop, 61 times at
\* most; after 60 loop attempts without a terminal answer the only step
\* left is the time-out error.
C4_Amended ==
    flow = "search" =>
        /\ obs.polls <= 61
        /\ pc = "search_loop" => (obs.polls = attempt + 1 /\ attempt <= 60)
        /\ (pc = "search_loop" /\ attempt = 60) =>
              (ENABLED SearchTimeout /\ ~ENABLED SearchPoll)
        /\ TimedOut => (/\ pc = "done"
                        /\ obs.polls = 61
                        /\ attempt = 60
                        /\ Len(signals) = 1)

\* C4: a search has timed out
C4_Witness == flow = "search" /\ pc = "done" /\ TimedOut /\ obs.polls = 61

\* A poll of SearchThread's loop has just returned a body
LoopPolled ==
    /\ pc = "search_loop"
    /\ obs'.polls = obs.polls + 1
    /\ ~obs'.last_none

\* The poll inside submit_search has just returned a body
QueuePolled ==
    /\ pc = "search_queue"
    /\ obs'.polls = obs.polls + 1
    /\ ~obs'.last_none

\* The step ended the search with results or handed ids to the resolver
EndsInSuccess ==
    \/ pc' = "resolve"
    \/ pc' = "done" /\ signals' # <<>> /\ Last(signals').sig = "results_ready"

EndsInError == pc' = "done" /\ signals' # <<>> /\ Last(signals').sig = "error_occurred"

\* The terminal condition as specified: progress 100, or a result list that
\* is present and empty while progress > 0
SpecTerminal(b) ==
    /\ b.kind = "dict"
    /\ b.progress_kind = "int"
    /\ \/ b.progress = 100
       \/ b.rv = "list" /\ b.ids = <<>> /\ b.progress > 0

\* C5, as claimed: a poll answer ends the search with success exactly when
\* it is terminal as specified; every other answer that is not a failure
\* leads to another poll.
C5_Claim ==
    [][LoopPolled => (EndsInSuccess <=> SpecTerminal(obs'.last_poll))]_vars

\* C6, as claimed: a poll answer with status 'failed' ends the search with
\* error_occurred, whatever its progress; so does the exceeded cap.
C6_Claim ==
    [][/\ (LoopPolled /\ obs'.last_poll.status = "failed") => EndsInError
       /\ (pc = "search_loop" /\ attempt = 60 /\ pc' # pc) => EndsInError]_vars

Complete(b) == b.kind = "dict" /\ b.progress_kind = "int" /\ b.progress = 100

C8_ResolveOnCompletion ==
    /\ [][((LoopPolled \/ QueuePolled) /\ Complete(obs'.last_poll)
               /\ StructureIds(obs'.last_poll) # <<>>)
           => (/\ pc' = "resolve"
               /\ job'.ids = obs'.last_poll.ids
               /\ obs'.resolved = <<obs'.last_poll.ids>>)]_vars
    /\ [][(pc \in {"resolve", "resolved"})
           => (/\ obs'.polls = obs.polls
               /\ pc' \in {"resolve", "resolved", "done"}
               /\ pc' = "done" => signals' = <<ResultsReady(job.structures)>>)]_vars
    /\ [](flow = "search" =>
            /\ Len(obs.resolved) <= 1
            /\ (pc = "done" /\ obs.resolved # <<>>) =>
                  signals = <<ResultsReady(job.structures)>>)

\* C8: progress 40 in submit_search, then progress 100 with [101, 102] in
\* the loop, and the two resolved records as the result
C8_Witness ==
    /\ flow = "search"
    /\ pc = "done"
    /\ obs.polls = 2
    /\ obs.resolved = <<(<<101, 102>>)>>
    /\ obs.queries = <<(<<101, 102>>)>>
    /\ signals = <<ResultsReady(<<Record(101, "a"), Record(102, "b")>>)>>

\* C9, as claimed: an export polls no more once a response had state
\* success or failed; failed ends it with None; the download request is
\* made only after a success.
C9_Claim ==
    flow \in ExportFlows =>
        /\ pc = "export_poll" => obs.terminal = ""
        /\ obs.terminal = "failed" => (pc = "done" /\ ~job.result.ok)
        /\ pc = "export_download" => obs.terminal = "success"
        /\ obs.downloads > 0 => obs.terminal = "success"

\* C10: a success response that lists structures as not exported ends the
\* export at once with None: the download request is not made.
C10_NotExportedFails ==
    (flow \in ExportFlows /\ obs.not_exported) =>
        /\ pc = "done"
        /\ ~job.result.ok
        /\ job.why = "not_exported"

\* C10: a ZIP export ended by a not_exported list on its second poll
C10_Witness ==
    /\ flow = "zip"
    /\ pc = "done"
    /\ obs.not_exported
    /\ obs.polls = 2
    /\ obs.downloads = 0

\* `out` is `raw` without its extension: raw itself when it has no '.',
\* else what precedes its last '.'
WithoutExtension(raw, out) ==
    IF \A j \in 1..Len(raw) : raw[j] # "."
    THEN out = raw
    ELSE \E i \in 1..Len(raw) :
            /\ raw[i] = "."
            /\ \A j \in (i + 1)..Len(raw) : raw[j] # "."
            /\ out = SubSeq(raw, 1, i - 1)

\* C11: the download request of an export names the domain event that was
\* polled, and its filename parameter is the file_name of the success
\* response's first file_names entry without its extension (unchanged when
\* that name has no '.').
C11_DownloadUrl ==
    [][(pc = "export_download" /\ obs'.downloads = obs.downloads + 1)
        => (/\ obs.terminal = "success"
            /\ obs'.download_url.event = obs.polled
            /\ obs.polled = job.event
            /\ WithoutExtension(job.file_name, obs'.download_url.filename))]_vars

\* C11: event 'ev1' with file '101.pdb' was downloaded as filename '101'
C11_Witness ==
    /\ flow = "pdb"
    /\ obs.downloads = 1
    /\ obs.polled = "ev1"
    /\ job.file_name = <<"1", "0", "1", ".", "p", "d", "b">>
    /\ obs.download_url = [event |-> "ev1", filename |-> <<"1", "0", "1">>]

\* get_structures_info has returned job.structures
Returned == flow = "resolver" /\ pc = "done"

RECURSIVE Flatten(_)
Flatten(ss) == IF ss = <<>> THEN <<>> ELSE Head(ss) \o Flatten(Tail(ss))

\* ceil(n / 500) queries for more than 500 ids, one query otherwise
ExpectedQueries(n) ==
    IF n > 500 THEN CHOOSE k \in 1..n : (k - 1) * 500 < n /\ n <= k * 500 ELSE 1

\* The queries are the consecutive slices of the argument, as many as
\* expected, full but for the last, and the result is what the chunks gave,
\* in chunk order
Chunked ==
    /\ Len(obs.queries) = ExpectedQueries(Len(job.ids))
    /\ Flatten(obs.queries) = job.ids
    /\ \A k \in 1..Len(obs.queries) :
          /\ Len(obs.queries[k]) <= 500
          /\ k < Len(obs.queries) => Len(obs.queries[k]) = 500
    /\ Len(obs.chunks) = Len(obs.queries)
    /\ job.structures = Flatten(obs.chunks)

\* C12, as claimed: get_structures_info over n ids issues ceil(n/500)
\* queries when n > 500 and one query otherwise, on the consecutive slices
\* of its argument, and returns the chunks' results in chunk order.
C12_Claim == Returned => Chunked

\* C12, amended: the same once test_connection has succeeded; when it
\* fails, no query is issued and the result is empty.
C12_Amended ==
    Returned => IF job.why = "not_connected"
                THEN obs.queries = <<>> /\ job.structures = <<>>
                ELSE Chunked

\* C12: 1001 ids were resolved in three queries that gave 2, 2 and 1 records
C12_Witness ==
    /\ Returned
    /\ Len(job.ids) = 1001
    /\ Len(obs.queries) = 3
    /\ Len(obs.chunks[1]) = 2
    /\ Len(job.structures) = 5

\* C13, as claimed: for more than 500 ids, not necessarily distinct, the
\* returned list is no longer than the argument and holds no two records
\* with the same structure_id.
C13_Claim ==
    (Returned /\ Len(job.ids) > 500) =>
        /\ Len(job.structures) <= Len(job.ids)
        /\ \A i, j \in 1..Len(job.structures) :
              i < j => job.structures[i].structure_id # job.structures[j].structure_id

\* The query was answered with a list of entries
Answered(a) == a.kind = "response" /\ a.status \in {200, 201} /\ a.json /\ a.shape

\* `out` holds, in their order, the entries of `e` that are the first with
\* their structure_id
IsFirstOccurrences(out, e) ==
    LET I == {i \in 1..Len(e) :
                /\ e[i].structure_id # NoId
                /\ \A j \in 1..(i - 1) : e[j].structure_id # e[i].structure_id}
    IN  /\ Len(out) = Cardinality(I)
        /\ \A i \in I : out[Cardinality({j \in I : j <= i})] = e[i]

\* C14, as claimed: of the entries of one answer, the first with each
\* structure_id is kept, and the kept entries stay in their order.
C14_Claim ==
    flow = "resolver" =>
        \A k \in 1..Len(obs.answers) :
            Answered(obs.answers[k]) =>
                IsFirstOccurrences(obs.chunks[k], obs.answers[k].entries)

\* C15: a chunk whose query fails (no response, an exception, a status
\* other than 200/201, an unparsable body or one without the entry list)
\* gives no record; the call still queries every chunk in order and returns
\* the records of all chunks that were answered.
C15_ChunkFailure ==
    /\ flow = "resolver" =>
          \A k \in 1..Len(obs.answers) :
              ~Answered(obs.answers[k]) => obs.chunks[k] = <<>>
    /\ (Returned /\ \E k \in 1..Len(obs.answers) : ~Answered(obs.answers[k])) =>
          /\ Len(obs.queries) = ExpectedQueries(Len(job.ids))
          /\ Flatten(obs.queries) = job.ids
          /\ job.structures =
                Flatten([k \in 1..Len(obs.answers) |->
                            IF Answered(obs.answers[k]) THEN obs.chunks[k] ELSE <<>>])

\* C15: of three chunks the second failed with status 500 and the others
\* gave their records
C15_Witness ==
    /\ Returned
    /\ Len(obs.answers) = 3
    /\ Answered(obs.answers[1])
    /\ obs.answers[2].status = 500
    /\ Answered(obs.answers[3])
    /\ Len(obs.chunks[1]) = 2
    /\ Len(job.structures) = 3

\* The entries of the downloaded ZIP whose names end in '.pdb'
PdbEntries(zip) ==
    {i \in 1..Len(zip.entries) :
        /\ Len(zip.entries[i].name) >= 4
        /\ SubSeq(zip.entries[i].name, Len(zip.entries[i].name) - 3,
                  Len(zip.entries[i].name)) = <<".", "p", "d", "b">>}

\* C16, as claimed: a multi-structure export whose downloaded ZIP holds N
\* entries named *.pdb returns a mapping of exactly N pairs, wherever the
\* entries lie; an unreadable or empty ZIP, or one without such an entry,
\* makes it return None, never an empty mapping.
C16_Claim ==
    (flow = "zip" /\ pc = "done" /\ obs.zip.kind # "none") =>
        IF obs.zip.kind = "zip" /\ PdbEntries(obs.zip) # {}
        THEN /\ job.result.ok
             /\ Cardinality(job.result.files) = Cardinality(PdbEntries(obs.zip))
        ELSE ~job.result.ok

\* C17: export_structures_with_transforms submits at most one export; for
\* one request it is a text-format export, and a successful export returns
\* a mapping with one entry; for two or more requests it is a ZIP-format
\* export whose payload lists every structure id and every transform in
\* request order.
C17_FormatByCount ==
    flow \in {"single", "zip"} =>
        /\ Len(job.submits) <= 1
        /\ pc \in {"export_poll", "export_download"} => Len(job.submits) = 1
        /\ job.result.ok => Len(job.submits) = 1
        /\ \A k \in 1..Len(job.submits) :
              LET items == job.items
                  sent == job.submits[k]
              IN  IF Len(items) = 1
                  THEN /\ sent.format = "structures-pdb-txt"
                       /\ job.result.ok => Cardinality(job.result.files) = 1
                  ELSE /\ Len(items) >= 2
                       /\ sent.format = "structures-pdb-zip"
                       /\ sent.payload.structures_id =
                             [i \in 1..Len(items) |-> items[i].structure_id]
                       /\ Len(sent.payload.matrix) = Len(items)
                       /\ \A i \in 1..Len(items) :
                             /\ sent.payload.matrix[i].structure_id = items[i].structure_id
                             /\ sent.payload.matrix[i].transform = items[i].transform

\* C17: requests for 102 and 101, in that order, were exported as ZIP
C17_Witness ==
    /\ flow = "zip"
    /\ pc = "done"
    /\ job.result.ok
    /\ Len(job.items) = 2
    /\ job.items[1].structure_id = 102
    /\ job.submits[1].format = "structures-pdb-zip"
    /\ job.submits[1].payload.structures_id = <<102, 101>>

\* `out` is `u` with 'http://' put before it unless it begins with http://
\* or https://, and without the '/' at its end
IsNormalized(u, out) ==
    LET http == <<"h", "t", "t", "p", ":", "/", "/">>
        https == <<"h", "t", "t", "p", "s", ":", "/", "/">>
        has(p) == Len(u) >= Len(p) /\ \A i \in 1..Len(p) : u[i] = p[i]
        v == IF has(http) \/ has(https) THEN u ELSE http \o u
    IN  /\ Len(out) <= Len(v)
        /\ \A i \in 1..Len(out) : out[i] = v[i]
        /\ \A i \in (Len(out) + 1)..Len(v) : v[i] = "/"
        /\ out = <<>> \/ out[Len(out)] # "/"

\* C18: after configure(u, k), from whatever session state, base_url is u
\* normalized, api_key is k, no token is held, the Authorization header is
\* absent and the API-key header is k; no request was sent.
C18_Configure ==
    req.kind = "configure" =>
        /\ IsNormalized(req.url, client.base_url)
        /\ client.api_key = req.key
        /\ client.token = ""
        /\ client.headers.Authorization = ""
        /\ client.headers.DngApiKey = req.key
        /\ req.sends = 0
        /\ req.loginSent = 0

\* C18: a logged-in session was configured with 'https://x//'
C18_Witness ==
    /\ req.kind = "configure"
    /\ req.before.token # ""
    /\ req.before.headers.Authorization # ""
    /\ req.url = <<"h", "t", "t", "p", "s", ":", "/", "/", "x", "/", "/">>
    /\ client.base_url = <<"h", "t", "t", "p", "s", ":", "/", "/", "x">>

\* The session has a base_url and an api_key
Configured(c) == c.base_url # <<>> /\ c.api_key # ""

\* C19: login() on an unconfigured session returns false, sends nothing
\* and leaves the session as it was; on a configured session it sends one
\* request and returns true exactly when the answer has status 200/201 and
\* a non-empty access_token; after true the token is that access_token, the
\* Authorization header carries it, the API-key header is gone, the
\* configuration file holds the session and the session is configured.
C19_Login ==
    req.kind = "login" =>
        /\ ~Configured(req.before) =>
              (~req.loginOk /\ req.loginSent = 0 /\ client = req.before)
        /\ Configured(req.before) =>
              /\ req.loginSent = 1
              /\ req.loginOk <=> (/\ req.answer.status \in {200, 201}
                                  /\ req.answer.body \notin {"", "badjson"})
        /\ req.loginOk =>
              /\ client.token = req.answer.body
              /\ client.token # ""
              /\ client.headers.Authorization = client.token
              /\ client.headers.DngApiKey = ""
              /\ config = [present |-> TRUE, base_url |-> client.base_url,
                           api_key |-> client.api_key, token |-> client.token]
              /\ Configured(client)

\* C19: login() succeeded on a session that had just been configured
C19_Witness ==
    /\ req.kind = "login"
    /\ req.loginOk
    /\ req.before.headers.DngApiKey # ""
    /\ req.before.token = ""
    /\ client.token = "t2"

\* C20, as claimed: test_connection() returns true without a request
\* whenever a token is held; without a token it makes one login attempt at
\* most, whose result it returns.
C20_Claim ==
    req.kind = "test_connection" =>
        /\ req.before.token # "" => (req.loginOk /\ req.loginSent = 0 /\ req.logins = 0)
        /\ req.before.token = "" =>
              /\ req.logins <= 1
              /\ req.loginOk = Login(req.before, config, req.answer).ok

\* C21: in every state of the session a held token implies that base_url
\* and api_key are both set.
C21_TokenImpliesConfigured ==
    client.token # "" => (client.base_url # <<>> /\ client.api_key # "")

\* C21: a failed connection test has put a token back that a re-login of a
\* request had obtained
C21_Witness ==
    /\ req.kind = "connection_test"
    /\ ~req.loginOk
    /\ client.token = "t2"
    /\ client.headers.Authorization = ""

C22_Restored ==
    (req.kind = "connection_test" /\ ~req.loginOk /\ ~req.raised) =>
        /\ client.base_url = req.before.base_url
        /\ client.api_key = req.before.api_key
        /\ client.token = req.before.token

\* C23, as claimed: an operation of the client that fails returns None or
\* an empty result; it does not raise to its caller.
C23_Claim ==
    (pc = "done" /\ flow # "") => job.why # "raised"

\* C24: get_projects and get_project_structures raise when the client is
\* not configured, when no connection is authenticated (nothing is sent),
\* when the re-login after a 401/403 fails and when the final status is
\* not 200; they return a list only for a response of status 200.
C24_CatalogRaises ==
    req.op \in {"get_projects", "get_project_structures"} =>
        /\ (req.before.base_url = <<>> \/ req.before.api_key = "") => req.raised
        /\ req.sends = 0 => req.raised
        /\ req.kind = "none" => req.raised
        /\ (req.kind = "response" /\ req.status # 200) => req.raised
        /\ ~req.raised => (req.kind = "response" /\ req.status = 200)

\* C24: get_project_structures raised because the re-login failed
C24_Witness ==
    /\ req.op = "get_project_structures"
    /\ req.kind = "none"
    /\ req.first \in {401, 403}
    /\ req.logins = 1
    /\ req.raised

\* The projects of `projects` whose label is not '3decision', in order
OtherProjects(projects) ==
    LET NotSystem(project) ==
            project.project_label # <<"3", "d", "e", "c", "i", "s", "i", "o", "n">>
    IN  SelectSeq(projects, NotSystem)

\* C25, as claimed: the projects listed never include the project labeled
\* '3decision', and after a load every other project the server returned
\* is listed, in the server's order.
C25_Claim ==
    /\ OtherProjects(gui.projects_data) = gui.projects_data
    /\ OtherProjects(gui.projects_table) = gui.projects_table
    /\ (req.op = "load_projects_for_tab" /\ ~req.raised) =>
          gui.projects_data = OtherProjects(req.list)

\* The rows t[0:4], t[4:8], t[8:12], t[12:16] of a flat list t
IsRowsOf(matrix, t) ==
    /\ Len(matrix) = 4
    /\ \A r \in 1..4 : /\ Len(matrix[r]) = 4
                       /\ \A c \in 1..4 : matrix[r][c] = t[4 * (r - 1) + c]

\* The project's structures have been listed
Listed == pc = "done" /\ flow = "project"

\* C26: the list has one entry per assignment, in order; an assignment
\* whose structure_id has a detailed record is that record with the
\* assignment's transform as 4x4 matrix, or without matrix when the
\* transform is no list of 16 values; any other assignment is listed as it
\* came.
C26_Merge ==
    Listed =>
        /\ Len(gui.current_project_structures) = Len(job.assignments)
        /\ \A i \in 1..Len(job.assignments) :
             LET s == job.assignments[i]
                 e == gui.current_project_structures[i]
                 D == {j \in 1..Len(job.structures) :
                         job.structures[j].structure_id = s.structure_id}
             IN  IF D # {}
                 THEN /\ "TRANSFORM_MATRIX" \in DOMAIN e
                      /\ \E j \in D : /\ e.structure_id = job.structures[j].structure_id
                                      /\ e.tag = job.structures[j].tag
                      /\ IF s.ref_dict /\ Len(s.transform) = 16
                         THEN IsRowsOf(e.TRANSFORM_MATRIX, s.transform)
                         ELSE e.TRANSFORM_MATRIX = <<>>
                 ELSE e = s

\* C26: of three assignments one was listed with its matrix, one without
\* matrix and one as it came
C26_Witness ==
    /\ Listed
    /\ Len(job.assignments) = 3
    /\ \E i, j, k \in 1..3 :
         /\ "TRANSFORM_MATRIX" \in DOMAIN gui.current_project_structures[i]
         /\ gui.current_project_structures[i].TRANSFORM_MATRIX # <<>>
         /\ "TRANSFORM_MATRIX" \in DOMAIN gui.current_project_structures[j]
         /\ gui.current_project_structures[j].TRANSFORM_MATRIX = <<>>
         /\ gui.current_project_structures[k] = job.assignments[k]

\* C27: a transform of 16 values is listed as its four rows, and the
\* transform sent for these rows is the same 16 values.
C27_RoundTrip ==
    Listed =>
        \A i \in 1..Len(job.assignments) :
            LET s == job.assignments[i]
                e == gui.current_project_structures[i]
            IN  ("TRANSFORM_MATRIX" \in DOMAIN e /\ s.ref_dict /\ Len(s.transform) = 16) =>
                    /\ IsRowsOf(e.TRANSFORM_MATRIX, s.transform)
                    /\ Reshape(s.transform) = e.TRANSFORM_MATRIX
                    /\ TransformOf(Reshape(s.transform)) = s.transform

\* C27: the transform 1..16 was listed as four rows
C27_Witness ==
    /\ Listed
    /\ \E i \in 1..Len(job.assignments) :
         /\ job.assignments[i].transform = [k \in 1..16 |-> k]
         /\ "TRANSFORM_MATRIX" \in DOMAIN gui.current_project_structures[i]
         /\ gui.current_project_structures[i].TRANSFORM_MATRIX[2] = <<5, 6, 7, 8>>

\* four rows of four values
WellFormed(matrix) == Len(matrix) = 4 /\ \A r \in 1..4 : Len(matrix[r]) = 4

\* C28: the request of a load with transforms has, for every structure of
\* the selection and in its order, a transform of 16 values: the rows of
\* the structure's matrix one after the other when there are four rows of
\* four, else the identity.
C28_Transforms ==
    (flow = "load" /\ job.why = "transforms") =>
        /\ Len(job.items) = Len(job.structure_data)
        /\ \A i \in 1..Len(job.items) :
             LET matrix == job.structure_data[i].matrix
                 t == job.items[i].transform
             IN  /\ job.items[i].structure_id = job.structure_data[i].structure_id
                 /\ job.items[i].external_code = job.structure_data[i].external_code
                 /\ Len(t) = 16
                 /\ IF WellFormed(matrix) THEN IsRowsOf(matrix, t)
                    ELSE t = <<1, 0, 0, 0,  0, 1, 0, 0,  0, 0, 1, 0,  0, 0, 0, 1>>

\* C28: a selection of a structure with three rows and one with four
C28_Witness ==
    /\ flow = "load"
    /\ job.why = "transforms"
    /\ Len(job.items) = 2
    /\ Len(job.structure_data[1].matrix) = 3
    /\ WellFormed(job.structure_data[2].matrix)
    /\ job.items[2].transform = [k \in 1..16 |-> k]

\* C29: get_associated_files never raises; a 404 answer gives the empty
\* list and no error is logged for it; every other failure gives the
\* empty list as well.
C29_AssociatedFiles ==
    req.op = "get_associated_files" =>
        /\ ~req.raised
        /\ (req.kind = "response" /\ req.status = 404) =>
              (req.list = <<>> /\ req.logged # "error")
        /\ (req.sends = 0 \/ req.kind # "response" \/ req.status # 200) =>
              req.list = <<>>

\* C29: the server answered 404
C29_Witness ==
    /\ req.op = "get_associated_files"
    /\ req.kind = "response"
    /\ req.sends = 1
    /\ req.status = 404
    /\ req.list = <<>>
    /\ req.logged = "debug"

\* C30, as claimed: one export makes at most one export request, 30 polls
\* of the domain event and one download request.
C30_Claim ==
    flow \in {"pdb", "single", "zip", "zipfile"} =>
        /\ Len(job.submits) <= 1
        /\ obs.polls <= 30
        /\ obs.downloads <= 1

\* The bound that holds: no more download requests than polls, and no more
\* than 30 polls
C30_Bounded ==
    flow \in {"pdb", "single", "zip", "zipfile"} =>
        /\ Len(job.submits) <= 1
        /\ obs.polls <= 30
        /\ obs.downloads <= obs.polls

\* C34, as claimed: in every state of the session a token is held exactly
\* when the session headers carry an Authorization header, and that header
\* is the bearer form of the token held.
C34_Claim ==
    /\ client.token # "" <=> client.headers.Authorization # None
    /\ client.token # "" => client.headers.Authorization = client.token

\* C35: a run of SearchThread.run ends with exactly one terminal
\* notification, results_ready or error_occurred, and emits none before it
\* ends.
C35_OneTerminal ==
    flow = "search" =>
        IF pc = "done"
        THEN /\ Len(signals) = 1
             /\ signals[1].sig \in {"results_ready", "error_occurred"}
        ELSE signals = <<>>

\* C35: a search that polled in submit_search and in the loop has ended
\* with the resolved structures
C35_Witness ==
    /\ flow = "search"
    /\ pc = "done"
    /\ obs.polls >= 2
    /\ Len(signals) = 1
    /\ signals[1].sig = "results_ready"
    /\ signals[1].structures # <<>>

\* C32, as claimed: after each poll of a job, a failed or empty one
\* included, a status notification reaches the caller before the next poll.
C32_Claim ==
    (flow = "search" /\ pc = "search_loop" /\ obs.polls > 0) =>
        obs.status_update # ""

\* C40, as claimed: in each export flow a domain-event poll answered with a
\* non-2xx status or an unparsable body ends the export with failure at
\* once; no further poll is issued.
C40_Claim ==
    obs.poll_failed => (pc = "done" /\ ~job.result.ok)

\* The same for export_structure_pdb and download_structures_zip only
C40_PdbAndZip ==
    (obs.poll_failed /\ flow # "single") => (pc = "done" /\ ~job.result.ok)

\* C39, as claimed: a connection test run from the settings dialog,
\* successful or not, leaves the client's base_url, api_key and token and
\* the saved configuration as they were when the dialog was opened.
C39_Claim ==
    [][ConnectionTest =>
          /\ client'.base_url = client.base_url
          /\ client'.api_key = client.api_key
          /\ client'.token = client.token
          /\ config' = config]_vars

\* The same for the tests that fail without an exception
C39_FailedTest ==
    [][(ConnectionTest /\ ~req'.loginOk /\ ~req'.raised) =>
          /\ client'.base_url = client.base_url
          /\ client'.api_key = client.api_key
          /\ client'.token = client.token
          /\ config' = config]_vars

\* C31, as claimed: once the dialog has been closed, no thread sends a
\* further request and no notification of a thread is delivered.
C31_Claim ==
    gui.after_close = {}

\* C33, as claimed: at most one search or load thread using the client is
\* running at any time.
C33_Claim ==
    Cardinality({i \in DOMAIN gui.threads : Running(i)}) <= 1

\* A load has been started and its all_structures_loaded has not been handled
LoadInProgress(i) ==
    /\ gui.threads[i].kind = "load"
    /\ \/ Running(i)
       \/ \E k \in DOMAIN gui.posted :
            gui.posted[k].thread = i /\ gui.posted[k].sig = "all_structures_loaded"

\* C37, as claimed: while a load is in progress the control that started
\* it is disabled.
C37_Claim ==
    \A i \in DOMAIN gui.threads :
        LoadInProgress(i) => ~gui[gui.threads[i].control]

\* C38, as claimed: the settings dialog does not reconfigure the client
\* while a search or load thread is running on it.
C38_Claim ==
    [][OpenSettings => \A i \in DOMAIN gui.threads : ~Running(i)]_vars

\* The signals of a load without matrices whose loop reached every
\* structure: one per structure, in order, then all_structures_loaded
PerStructure(t, i) ==
    /\ Len(t.emitted) = t.n + 1
    /\ \A k \in 1..t.n :
         /\ t.emitted[k].sig \in {"structure_loaded", "error_occurred"}
         /\ t.emitted[k].item = k
    /\ t.emitted[t.n + 1] = Signal("all_structures_loaded", i, 0, 0)

\* C36, as claimed: a load without transforms emits for each selected
\* structure one of structure_loaded / error_occurred, in selection order,
\* and then all_structures_loaded once.
C36_Claim ==
    \A i \in DOMAIN gui.threads :
        LET t == gui.threads[i]
        IN  (t.kind = "load" /\ ~t.has_matrices /\ t.state = "finished") =>
                PerStructure(t, i)

\* C36, amended: that holds unless a PyMOL call raises; then the signals
\* are those of the structures before it, one error_occurred for the
\* exception and nothing more.
C36_Amended ==
    \A i \in DOMAIN gui.threads :
        LET t == gui.threads[i]
            m == Len(t.emitted)
        IN  (t.kind = "load" /\ ~t.has_matrices /\ t.state = "finished") =>
                \/ PerStructure(t, i)
                \/ /\ m >= 1
                   /\ m <= t.n
                   /\ m = t.n - t.todo
                   /\ \A k \in 1..(m - 1) :
                        /\ t.emitted[k].sig \in {"structure_loaded", "error_occurred"}
                        /\ t.emitted[k].item = k
                   /\ t.emitted[m] = Signal("error_occurred", i, 0, 0)

\* C36: two structures were selected, the export of the first failed and
\* the second was loaded
C36_Witness ==
    \E i \in DOMAIN gui.threads :
        LET t == gui.threads[i]
        IN  /\ t.kind = "load"
            /\ ~t.has_matrices
            /\ t.state = "finished"
            /\ t.n = 2
            /\ Len(t.emitted) = 3
            /\ t.emitted[1].sig = "error_occurred"
            /\ t.emitted[2].sig = "structure_loaded"
            /\ t.emitted[3].sig = "all_structures_loaded"

====
